---------------------------- MODULE Spec2Model ----------------------------
(***************************************************************************)
(* A model of polaris-data-table-views: the URL query-state codec          *)
(* (parseUrlParams / serializeToUrlParams), the useDataSource hook and the *)
(* ListTable component (state setters, debounced URL sync, debounced       *)
(* fetch, per-endpoint abort controllers) and the selection tracker.       *)
(*                                                                         *)
(* Strings are sequences of character codes, so that percent-encoding,     *)
(* JSON text and parseInt are computed character by character.             *)
(***************************************************************************)
EXTENDS Integers, Sequences, FiniteSets, TLC

(***************************************************************************)
(* Characters and strings.                                                 *)
(***************************************************************************)

\* The characters string literals of the model are written with.  No '.',
\* '+', '-', ':' or '\' can be written, which is what keeps JSONparse below exact
\* on every text of the model (no fractions, no object members, no escapes
\* other than the \" that JSONstringify itself produces).
Code ==
  ("a" :> 97) @@ ("b" :> 98) @@ ("c" :> 99) @@ ("d" :> 100) @@ ("e" :> 101) @@
  ("f" :> 102) @@ ("g" :> 103) @@ ("i" :> 105) @@ ("l" :> 108) @@ ("n" :> 110) @@
  ("o" :> 111) @@ ("p" :> 112) @@ ("q" :> 113) @@ ("r" :> 114) @@ ("s" :> 115) @@
  ("t" :> 116) @@ ("u" :> 117) @@ ("v" :> 118) @@ ("w" :> 119) @@ ("y" :> 121) @@
  ("S" :> 83) @@ ("A" :> 65) @@ ("V" :> 86) @@ ("_" :> 95) @@
  ("0" :> 48) @@ ("1" :> 49) @@ ("2" :> 50) @@ ("3" :> 51) @@ ("4" :> 52) @@
  ("5" :> 53) @@ ("-" :> 45) @@
  ("%" :> 37) @@ ("|" :> 124) @@ (" " :> 32) @@ ("\"" :> 34) @@
  ("[" :> 91) @@ ("]" :> 93) @@ ("," :> 44) @@ ("{" :> 123) @@ ("}" :> 125)

\* The string written as the tuple of its characters: S(<<"a","b">>) is "ab".
S(t) == [i \in 1..Len(t) |-> Code[t[i]]]

IsDigit(c) == c \in 48..57
IsSpace(c) == c \in {32, 9, 10, 11, 12, 13}

RECURSIVE Concat(_)
\* The concatenation of a sequence of strings.
Concat(ss) == IF ss = <<>> THEN <<>> ELSE Head(ss) \o Concat(Tail(ss))

RECURSIVE Pow10(_)
Pow10(n) == IF n = 0 THEN 1 ELSE 10 * Pow10(n - 1)

RECURSIVE DigitsOf(_)
DigitsOf(n) == IF n < 10 THEN <<48 + n>> ELSE DigitsOf(n \div 10) \o <<48 + (n % 10)>>

\* String(n) / n.toString() of an integer.
NumToString(n) == IF n < 0 THEN <<45>> \o DigitsOf(0 - n) ELSE DigitsOf(n)

\* String(b) of a boolean.
BoolToString(b) == IF b THEN S(<<"t","r","u","e">>) ELSE S(<<"f","a","l","s","e">>)

RECURSIVE DigitsValue(_, _)
\* The value of a run of decimal digits, acc being the value read so far.
DigitsValue(s, acc) ==
  IF s = <<>> THEN acc ELSE DigitsValue(Tail(s), 10 * acc + (Head(s) - 48))

RECURSIVE DigitRun(_, _)
\* The end (exclusive) of the run of digits of s that starts at i.
DigitRun(s, i) == IF i <= Len(s) /\ IsDigit(s[i]) THEN DigitRun(s, i + 1) ELSE i

RECURSIVE SkipSpace(_, _)
SkipSpace(s, i) == IF i <= Len(s) /\ IsSpace(s[i]) THEN SkipSpace(s, i + 1) ELSE i

RECURSIVE SkipSpaceBack(_, _)
SkipSpaceBack(s, j) == IF j >= 1 /\ IsSpace(s[j]) THEN SkipSpaceBack(s, j - 1) ELSE j

\* String.prototype.trim
Trim(s) == SubSeq(s, SkipSpace(s, 1), SkipSpaceBack(s, Len(s)))

StartsWith(s, p) == Len(s) >= Len(p) /\ SubSeq(s, 1, Len(p)) = p

RECURSIVE FindSub(_, _, _)
\* The first position >= i at which p occurs in s, 0 when there is none.
FindSub(s, p, i) ==
  IF i + Len(p) - 1 > Len(s) THEN 0
  ELSE IF SubSeq(s, i, i + Len(p) - 1) = p THEN i
  ELSE FindSub(s, p, i + 1)

\* s.replace(p, r) with a string pattern: the first occurrence only.
Replace(s, p, r) ==
  LET k == FindSub(s, p, 1)
  IN IF k = 0 THEN s
     ELSE SubSeq(s, 1, k - 1) \o r \o SubSeq(s, k + Len(p), Len(s))

RECURSIVE Split(_, _)
\* s.split(sep) for a one-character separator.
Split(s, sep) ==
  LET k == FindSub(s, <<sep>>, 1)
  IN IF k = 0 THEN <<s>>
     ELSE <<SubSeq(s, 1, k - 1)>> \o Split(SubSeq(s, k + 1, Len(s)), sep)

(***************************************************************************)
(* JavaScript values.  A number is an integer or NaN.                      *)
(***************************************************************************)
Num(n) == [nan |-> FALSE, n |-> n]
NaN == [nan |-> TRUE, n |-> 0]

\* parseInt(s, 10): leading white space, an optional sign, then the longest
\* run of digits; NaN when there is no digit.
ParseInt(s) ==
  LET i == SkipSpace(s, 1)
      neg == i <= Len(s) /\ s[i] = 45
      j == IF i <= Len(s) /\ s[i] \in {43, 45} THEN i + 1 ELSE i
      k == DigitRun(s, j)
      v == DigitsValue(SubSeq(s, j, k - 1), 0)
  IN IF k = j THEN NaN ELSE Num(IF neg THEN 0 - v ELSE v)

\* The values a filter or a parsed JSON text can hold.
Str(s) == [t |-> "string", v |-> s]
Arr(a) == [t |-> "array", v |-> a]
Number(n) == [t |-> "number", v |-> n]
Bool(b) == [t |-> "boolean", v |-> b]
Null == [t |-> "null"]
Undefined == [t |-> "undefined"]
Obj == [t |-> "object"]

(***************************************************************************)
(* encodeURIComponent / decodeURIComponent.                                *)
(***************************************************************************)
HexVal(c) ==
  IF c \in 48..57 THEN c - 48
  ELSE IF c \in 65..70 THEN c - 55
  ELSE IF c \in 97..102 THEN c - 87
  ELSE 0 - 1

HexChar(n) == IF n < 10 THEN 48 + n ELSE 55 + n

PercentByte(b) == <<37, HexChar(b \div 16), HexChar(b % 16)>>

\* A-Z a-z 0-9 - _ . ! ~ * ' ( ) are left alone by encodeURIComponent.
Unreserved(c) ==
  c \in (65..90) \cup (97..122) \cup (48..57) \cup {45, 95, 46, 33, 126, 42, 39, 40, 41}

\* One code point, percent-encoded as UTF-8 (code points below 2048).
EncodeChar(c) ==
  IF Unreserved(c) THEN <<c>>
  ELSE IF c < 128 THEN PercentByte(c)
  ELSE PercentByte(192 + (c \div 64)) \o PercentByte(128 + (c % 64))

RECURSIVE EncodeURIComponent(_)
EncodeURIComponent(s) ==
  IF s = <<>> THEN <<>> ELSE EncodeChar(Head(s)) \o EncodeURIComponent(Tail(s))

\* Is there a well-formed escape %XX at position i of s?
EscapeAt(s, i) ==
  /\ i + 2 <= Len(s)
  /\ s[i] = 37
  /\ HexVal(s[i + 1]) >= 0
  /\ HexVal(s[i + 2]) >= 0

ByteAt(s, i) == 16 * HexVal(s[i + 1]) + HexVal(s[i + 2])

RECURSIVE DecodeFrom(_, _)
\* decodeURIComponent of the rest of s from position i: [ok, v], ok = FALSE
\* when the code throws URIError (a '%' without two hex digits, or bytes that
\* are not UTF-8).  Sequences of three and four bytes need nine characters
\* and more, and are not decoded here.
DecodeFrom(s, i) ==
  IF i > Len(s) THEN [ok |-> TRUE, v |-> <<>>]
  ELSE IF s[i] # 37 THEN
    LET r == DecodeFrom(s, i + 1)
    IN IF r.ok THEN [ok |-> TRUE, v |-> <<s[i]>> \o r.v] ELSE r
  ELSE IF ~EscapeAt(s, i) THEN [ok |-> FALSE, v |-> <<>>]
  ELSE LET b == ByteAt(s, i)
       IN IF b < 128 THEN
            LET r == DecodeFrom(s, i + 3)
            IN IF r.ok THEN [ok |-> TRUE, v |-> <<b>> \o r.v] ELSE r
          ELSE IF b \in 194..223 /\ EscapeAt(s, i + 3) /\ ByteAt(s, i + 3) \in 128..191 THEN
            LET r == DecodeFrom(s, i + 6)
                c == (b - 192) * 64 + (ByteAt(s, i + 3) - 128)
            IN IF r.ok THEN [ok |-> TRUE, v |-> <<c>> \o r.v] ELSE r
          ELSE [ok |-> FALSE, v |-> <<>>]

DecodeURIComponent(s) == DecodeFrom(s, 1)

(***************************************************************************)
(* JSON.parse / JSON.stringify.  The grammar read is: white space, the     *)
(* literals, integers with an optional non-negative exponent, strings with *)
(* the escapes \" \\ \/, arrays of values, and the empty object.           *)
(***************************************************************************)
IsJsonSpace(c) == c \in {32, 9, 10, 13}

RECURSIVE SkipJsonSpace(_, _)
SkipJsonSpace(s, i) ==
  IF i <= Len(s) /\ IsJsonSpace(s[i]) THEN SkipJsonSpace(s, i + 1) ELSE i

JsonFail == [ok |-> FALSE, v |-> Null, next |-> 0]

WordAt(s, i, w) == i + Len(w) - 1 <= Len(s) /\ SubSeq(s, i, i + Len(w) - 1) = w

\* A JSON number at position i: -? (0 | [1-9][0-9]*) ([eE] +? [0-9]+)?
JsonNumberAt(s, i) ==
  LET neg == s[i] = 45
      j == IF neg THEN i + 1 ELSE i
      k == IF j <= Len(s) /\ s[j] = 48 THEN j + 1 ELSE DigitRun(s, j)
      m == DigitsValue(SubSeq(s, j, k - 1), 0)
      hasExp == k <= Len(s) /\ s[k] \in {101, 69}
      x == IF hasExp /\ k + 1 <= Len(s) /\ s[k + 1] = 43 THEN k + 2 ELSE k + 1
      y == DigitRun(s, x)
      e == DigitsValue(SubSeq(s, x, y - 1), 0)
      val == IF hasExp THEN m * Pow10(e) ELSE m
  IN IF k = j THEN JsonFail
     ELSE IF hasExp /\ y = x THEN JsonFail
     ELSE [ok |-> TRUE,
           v |-> Number(IF neg THEN 0 - val ELSE val),
           next |-> IF hasExp THEN y ELSE k]

RECURSIVE JsonStringBody(_, _)
\* The characters of a JSON string whose opening quote precedes position j.
JsonStringBody(s, j) ==
  IF j > Len(s) THEN JsonFail
  ELSE IF s[j] = 34 THEN [ok |-> TRUE, v |-> <<>>, next |-> j + 1]
  ELSE IF s[j] < 32 THEN JsonFail
  ELSE IF s[j] = 92 THEN
    IF j + 1 <= Len(s) /\ s[j + 1] \in {34, 92, 47} THEN
      LET r == JsonStringBody(s, j + 2)
      IN IF r.ok THEN [ok |-> TRUE, v |-> <<s[j + 1]>> \o r.v, next |-> r.next] ELSE r
    ELSE JsonFail
  ELSE LET r == JsonStringBody(s, j + 1)
       IN IF r.ok THEN [ok |-> TRUE, v |-> <<s[j]>> \o r.v, next |-> r.next] ELSE r

RECURSIVE JsonValueAt(_, _), JsonElementsAt(_, _)
\* The JSON value that starts at position i of s: [ok, v, next].
JsonValueAt(s, i) ==
  IF i > Len(s) THEN JsonFail
  ELSE IF WordAt(s, i, S(<<"n","u","l","l">>)) THEN [ok |-> TRUE, v |-> Null, next |-> i + 4]
  ELSE IF WordAt(s, i, S(<<"t","r","u","e">>)) THEN [ok |-> TRUE, v |-> Bool(TRUE), next |-> i + 4]
  ELSE IF WordAt(s, i, S(<<"f","a","l","s","e">>)) THEN [ok |-> TRUE, v |-> Bool(FALSE), next |-> i + 5]
  ELSE IF s[i] = 45 \/ IsDigit(s[i]) THEN JsonNumberAt(s, i)
  ELSE IF s[i] = 34 THEN
    LET r == JsonStringBody(s, i + 1)
    IN IF r.ok THEN [ok |-> TRUE, v |-> Str(r.v), next |-> r.next] ELSE JsonFail
  ELSE IF s[i] = 91 THEN
    LET k == SkipJsonSpace(s, i + 1)
    IN IF k <= Len(s) /\ s[k] = 93 THEN [ok |-> TRUE, v |-> Arr(<<>>), next |-> k + 1]
       ELSE LET r == JsonElementsAt(s, k)
            IN IF r.ok THEN [ok |-> TRUE, v |-> Arr(r.v), next |-> r.next] ELSE JsonFail
  ELSE IF s[i] = 123 THEN
    LET k == SkipJsonSpace(s, i + 1)
    IN IF k <= Len(s) /\ s[k] = 125 THEN [ok |-> TRUE, v |-> Obj, next |-> k + 1]
       ELSE JsonFail
  ELSE JsonFail

\* The elements of an array from position i to its closing bracket.
JsonElementsAt(s, i) ==
  LET e == JsonValueAt(s, i)
      k == SkipJsonSpace(s, e.next)
  IN IF ~e.ok \/ k > Len(s) THEN JsonFail
     ELSE IF s[k] = 93 THEN [ok |-> TRUE, v |-> <<e.v>>, next |-> k + 1]
     ELSE IF s[k] = 44 THEN
       LET r == JsonElementsAt(s, SkipJsonSpace(s, k + 1))
       IN IF r.ok THEN [ok |-> TRUE, v |-> <<e.v>> \o r.v, next |-> r.next] ELSE JsonFail
     ELSE JsonFail

\* JSON.parse(text): [ok, v]; ok = FALSE when it throws SyntaxError.
JSONparse(text) ==
  LET r == JsonValueAt(text, SkipJsonSpace(text, 1))
  IN IF r.ok /\ SkipJsonSpace(text, r.next) = Len(text) + 1
     THEN [ok |-> TRUE, v |-> r.v]
     ELSE [ok |-> FALSE, v |-> Null]

RECURSIVE JsonQuoteBody(_)
JsonQuoteBody(s) ==
  IF s = <<>> THEN <<>>
  ELSE (IF Head(s) \in {34, 92} THEN <<92, Head(s)>> ELSE <<Head(s)>>) \o JsonQuoteBody(Tail(s))

RECURSIVE JSONstringify(_), JsonJoin(_)
\* JSON.stringify(v)
JSONstringify(v) ==
  IF v.t = "string" THEN <<34>> \o JsonQuoteBody(v.v) \o <<34>>
  ELSE IF v.t = "number" THEN NumToString(v.v)
  ELSE IF v.t = "boolean" THEN BoolToString(v.v)
  ELSE IF v.t = "array" THEN <<91>> \o JsonJoin(v.v) \o <<93>>
  ELSE IF v.t = "object" THEN <<123, 125>>
  ELSE S(<<"n","u","l","l">>)

\* The elements of an array, stringified and separated by commas.
JsonJoin(a) ==
  IF a = <<>> THEN <<>>
  ELSE IF Len(a) = 1 THEN JSONstringify(a[1])
  ELSE JSONstringify(a[1]) \o <<44>> \o JsonJoin(Tail(a))

(***************************************************************************)
(* URLSearchParams: a function from the keys present to their values.      *)
(***************************************************************************)
EmptyParams == <<>>

Has(sp, k) == k \in DOMAIN sp

ParamSet(sp, k, v) == [x \in (DOMAIN sp) \cup {k} |-> IF x = k THEN v ELSE sp[x]]

ParamDelete(sp, k) == [x \in (DOMAIN sp) \ {k} |-> sp[x]]

\* searchParams.get(k) is truthy: present and not the empty string.
Truthy(sp, k) == Has(sp, k) /\ sp[k] # <<>>

kPage == S(<<"p","a","g","e">>)
kSort == S(<<"s","o","r","t">>)
kQuery == S(<<"q","u","e","r","y">>)
kViewSelected == S(<<"v","i","e","w","S","e","l","e","c","t","e","d">>)
kFilter == S(<<"f","i","l","t","e","r","_">>)
sAsc == S(<<"a","s","c">>)
sDesc == S(<<"d","e","s","c">>)

(***************************************************************************)
(* The query-state codec.                                                  *)
(***************************************************************************)

\* isEmptyFilter
isEmptyFilter(value) ==
  \/ value.t \in {"undefined", "null"}
  \/ value.t = "string" /\ value.v = <<>>
  \/ value.t = "array" /\ value.v = <<>>

\* cleanFilters
cleanFilters(filters) ==
  [k \in {x \in DOMAIN filters : ~isEmptyFilter(filters[x])} |-> filters[k]]

\* The sort of parseUrlParams: "<field>|<asc|desc>", anything else is null.
ParseSort(sp) ==
  IF ~Truthy(sp, kSort) THEN Null
  ELSE LET parts == Split(sp[kSort], 124)
       IN IF Len(parts) = 2 /\ Trim(parts[1]) # <<>> /\ parts[2] \in {sAsc, sDesc}
          THEN [field |-> Trim(parts[1]), direction |-> parts[2]]
          ELSE Null

\* One filter_* value: JSON.parse, and decodeURIComponent when that throws.
ParseFilterValue(value) ==
  LET j == JSONparse(value)
      d == DecodeURIComponent(value)
  IN IF j.ok THEN [ok |-> TRUE, v |-> j.v]
     ELSE IF d.ok THEN [ok |-> TRUE, v |-> Str(d.v)]
     ELSE [ok |-> FALSE, v |-> Null]

\* The outcome of a call that threw.
Threw == [threw |-> TRUE]

\* parseUrlParams
parseUrlParams(searchParams) ==
  LET page == ParseInt(IF Truthy(searchParams, kPage) THEN searchParams[kPage] ELSE S(<<"1">>))
      q == IF Truthy(searchParams, kQuery)
           THEN DecodeURIComponent(searchParams[kQuery])
           ELSE [ok |-> TRUE, v |-> <<>>]
      viewSelected == IF Has(searchParams, kViewSelected)
                      THEN Str(searchParams[kViewSelected]) ELSE Null
      fkeys == {k \in DOMAIN searchParams : StartsWith(k, kFilter)}
  IN IF ~q.ok \/ \E k \in fkeys : ~ParseFilterValue(searchParams[k]).ok
     THEN Threw
     ELSE [threw |-> FALSE,
           page |-> page,
           sort |-> ParseSort(searchParams),
           queryValue |-> q.v,
           filters |-> [fk \in {Replace(k, kFilter, <<>>) : k \in fkeys} |->
                          ParseFilterValue(searchParams[kFilter \o fk]).v],
           viewSelected |-> viewSelected]

\* parseUrlParams of utils/url.ts, the older variant: page and query only
\* when their parameter is not empty, sort as the text of the parameter,
\* the filters as above.
parseUrlParamsLegacy(searchParams) ==
  LET q == IF Truthy(searchParams, kQuery)
           THEN DecodeURIComponent(searchParams[kQuery])
           ELSE [ok |-> TRUE, v |-> <<>>]
      fkeys == {k \in DOMAIN searchParams : StartsWith(k, kFilter)}
  IN IF ~q.ok \/ \E k \in fkeys : ~ParseFilterValue(searchParams[k]).ok
     THEN Threw
     ELSE [threw |-> FALSE,
           page |-> IF Truthy(searchParams, kPage) THEN ParseInt(searchParams[kPage])
                    ELSE Undefined,
           sort |-> IF Truthy(searchParams, kSort) THEN Str(searchParams[kSort])
                    ELSE Undefined,
           query |-> IF Truthy(searchParams, kQuery) THEN Str(q.v) ELSE Undefined,
           filters |-> [fk \in {Replace(k, kFilter, <<>>) : k \in fkeys} |->
                          ParseFilterValue(searchParams[kFilter \o fk]).v]]

\* The text serializeToUrlParams writes for one filter value; ok = FALSE when
\* it writes nothing for it.
FilterParamText(value) ==
  IF value.t \in {"undefined", "null"} \/ (value.t = "string" /\ value.v = <<>>)
  THEN [ok |-> FALSE, v |-> <<>>]
  ELSE IF value.t = "array" /\ value.v # <<>> THEN [ok |-> TRUE, v |-> JSONstringify(value)]
  ELSE IF value.t = "string" THEN [ok |-> TRUE, v |-> EncodeURIComponent(value.v)]
  ELSE IF value.t = "number" THEN [ok |-> TRUE, v |-> NumToString(value.v)]
  ELSE IF value.t = "boolean" THEN [ok |-> TRUE, v |-> BoolToString(value.v)]
  ELSE [ok |-> FALSE, v |-> <<>>]

\* serializeToUrlParams without the removal of the old filter_* parameters.
serializeOverOldFilters(state, baseParams) ==
  LET p1 == IF ~state.page.nan /\ state.page.n > 1
            THEN ParamSet(baseParams, kPage, NumToString(state.page.n))
            ELSE ParamDelete(baseParams, kPage)
      p2 == IF state.sort # Null
            THEN ParamSet(p1, kSort, state.sort.field \o <<124>> \o state.sort.direction)
            ELSE ParamDelete(p1, kSort)
      p3 == IF state.queryValue # <<>>
            THEN ParamSet(p2, kQuery, EncodeURIComponent(state.queryValue))
            ELSE ParamDelete(p2, kQuery)
      written == {k \in DOMAIN state.filters : FilterParamText(state.filters[k]).ok}
      p4 == [x \in (DOMAIN p3) \cup {kFilter \o k : k \in written} |->
               IF x \in {kFilter \o k : k \in written}
               THEN FilterParamText(state.filters[SubSeq(x, Len(kFilter) + 1, Len(x))]).v
               ELSE p3[x]]
  IN IF state.viewSelected # Null /\ state.viewSelected.v # <<>>
     THEN ParamSet(p4, kViewSelected, state.viewSelected.v)
     ELSE ParamDelete(p4, kViewSelected)

\* serializeToUrlParams(state, baseParams); state.viewSelected is a string
\* value or Null.
serializeToUrlParams(state, baseParams) ==
  LET p1 == IF ~state.page.nan /\ state.page.n > 1
            THEN ParamSet(baseParams, kPage, NumToString(state.page.n))
            ELSE ParamDelete(baseParams, kPage)
      p2 == IF state.sort # Null
            THEN ParamSet(p1, kSort, state.sort.field \o <<124>> \o state.sort.direction)
            ELSE ParamDelete(p1, kSort)
      p3 == IF state.queryValue # <<>>
            THEN ParamSet(p2, kQuery, EncodeURIComponent(state.queryValue))
            ELSE ParamDelete(p2, kQuery)
      kept == {k \in DOMAIN p3 : ~StartsWith(k, kFilter)}
      written == {k \in DOMAIN state.filters : FilterParamText(state.filters[k]).ok}
      p4 == [x \in kept \cup {kFilter \o k : k \in written} |->
               IF x \in {kFilter \o k : k \in written}
               THEN FilterParamText(state.filters[SubSeq(x, Len(kFilter) + 1, Len(x))]).v
               ELSE p3[x]]
  IN IF state.viewSelected # Null /\ state.viewSelected.v # <<>>
     THEN ParamSet(p4, kViewSelected, state.viewSelected.v)
     ELSE ParamDelete(p4, kViewSelected)

(***************************************************************************)
(* The orchestrators.  Each instance (a mounted useDataSource hook or      *)
(* ListTable component) has its own React state; window.location and the   *)
(* module-level abortControllers map are shared by all instances.          *)
(***************************************************************************)
Inst == {1, 2}

\* Bounds of the model.
MaxPage == 2
MaxReq == 2
MaxCalls == 2
MaxViews == 4
MaxSelected == 4

DEFAULT_LIMIT == 50

\* window.history grows by one entry with every pushState; the model keeps
\* its length modulo HistoryMod, which tells a step that pushes from one that
\* does not.
HistoryMod == 2

VARIABLES
  codec,                \* the codec under test: [step, input, params, out, again]
  location,             \* window.location.search, as a parameter set
  history,              \* window.history.length modulo HistoryMod: one more entry
                        \* with every pushState
  props,                \* [Inst -> the options / props the instance was given]
  mounted,              \* [Inst -> BOOLEAN]
  searchParams,         \* [Inst -> useUrlParams' snapshot of the parameters]
  state,                \* [Inst -> QueryState]
  views,                \* [Inst -> the views list]
  items, total, loading, firstLoad, error,
  selectedResources, allResourcesSelected,
  syncTimers,           \* [Inst -> pending debounced URL syncs (their closures)]
  fetchTimers,          \* [Inst -> pending debounced fetches (their closures)]
  requests,             \* the transport calls made, in order: <<[inst, endpoint,
                        \* aborted, status, was]>>, status "pending" or "settled",
                        \* was: the instance's data when fetchData was entered
  abortControllers,     \* endpoint -> index in requests of the registered controller
  applied,              \* [Inst -> the request whose result items/total hold, 0: none]
  calls,                \* setter calls made so far
  viewCalls,            \* the calls of the views endpoint in flight:
                        \* <<[inst, action, ...]>>
  pager,                \* the usePagination hook under test, or PagerIdle
  engine,               \* the local engine or the filter consumers under test, or EngineIdle
  last                  \* the last operation: [op, inst, stale]

vars == <<codec, location, history, props, mounted, searchParams, state, views, items, total,
          loading, firstLoad, error, selectedResources, allResourcesSelected,
          syncTimers, fetchTimers, requests, abortControllers, applied, calls,
          viewCalls, pager, engine, last>>

codecVars == <<codec>>
selectionVars == <<selectedResources, allResourcesSelected>>
dataVars == <<items, total, loading, firstLoad, error, applied>>
fetchVars == <<fetchTimers, requests, abortControllers>>

\* Names used by the orchestrator's inputs.
kStatus == S(<<"s">>)
sViewV == S(<<"v">>)
sAll == S(<<"A","l","l">>)
sA == S(<<"a">>)

\* The built-in view and the views the caller configures (defaultViews).
AllView == [name |-> sAll, filters |-> <<>>]
DefaultViews == <<[name |-> sViewV, filters |-> (kStatus :> Str(sA))]>>

OrchQueries == {<<>>, sA}
OrchFilterValues == {Str(sA)}
OrchFilters == {<<>>, (kStatus :> Str(sA))}
OrchSorts == {Null, [field |-> sA, direction |-> sAsc]}
Pages == 1..MaxPage

\* What the transport can resolve with (already in the {items, total} shape).
Responses == {[items |-> <<>>, total |-> 0], [items |-> <<"r1", "r2">>, total |-> 3]}

\* The address bars an instance can be mounted under.
OrchUrls ==
  { EmptyParams,
    (kPage :> S(<<"2">>)) @@ (kViewSelected :> sViewV),
    (kPage :> S(<<"0">>)),
    (kPage :> sA) @@ (kQuery :> sA) @@ ((kFilter \o kStatus) :> sA) }

\* The props of an instance: what it is (a useDataSource hook or a ListTable),
\* endpoint, syncWithUrl, whether the caller passes a defaultViews array at
\* all (when it does not, the default `= []` is a new array on every render),
\* whether the transport rejects with AbortError once its signal is aborted
\* (fetch does; a caller-supplied fetchFn need not), and whether a ListTable
\* is given a viewsEndpoint (no propsViews, no localData).
Props(kind, syncWithUrl, givenViews, honoursSignal) ==
  [kind |-> kind, endpoint |-> "e", syncWithUrl |-> syncWithUrl,
   givenViews |-> givenViews, honoursSignal |-> honoursSignal,
   viewsEndpoint |-> FALSE]

PropsPool ==
  { Props("hook", FALSE, TRUE, TRUE), Props("hook", FALSE, TRUE, FALSE),
    Props("hook", TRUE, TRUE, TRUE), Props("hook", TRUE, FALSE, TRUE) }

NoProps == Props("hook", FALSE, TRUE, TRUE)

\* defaultViews as the instance sees it.
defaultViewsOf(p) == IF p.givenViews THEN DefaultViews ELSE <<>>

\* findIndex: the 0-based index of the first view named (or with id) name, -1.
findIndex(vs, name) ==
  LET hits == {k \in 1..Len(vs) : vs[k].name = name}
  IN IF hits = {} THEN 0 - 1
     ELSE (CHOOSE k \in hits : \A h \in hits : k <= h) - 1

Max(a, b) == IF a >= b THEN a ELSE b

\* The key a view's snapshot keeps the search text under.
kQueryValue == S(<<"q","u","e","r","y","V","a","l","u","e">>)

\* filters.queryValue || "": the search text of a view's snapshot.
queryOfView(view) ==
  IF kQueryValue \in DOMAIN view.filters /\ view.filters[kQueryValue].t = "string"
  THEN view.filters[kQueryValue].v
  ELSE <<>>

\* The identity of a filters object that no view holds.
OwnRef == 0 - 1

\* useDataSource.getInitialState with syncWithUrl, once the address bar is
\* parsed; filtersRef is the identity of state.filters: OwnRef, or the index
\* of the view whose filters object it is.
initialStateFrom(p, parsed) ==
  [page |-> parsed.page,
   limit |-> DEFAULT_LIMIT,
   queryValue |-> parsed.queryValue,
   filters |-> parsed.filters,
   sort |-> parsed.sort,
   selectedView |-> Max(0, IF parsed.viewSelected # Null /\ parsed.viewSelected.v # <<>>
                           THEN findIndex(defaultViewsOf(p), parsed.viewSelected.v)
                           ELSE 0),
   filtersRef |-> OwnRef]

\* useDataSource.getInitialState
getInitialState(p, sp) ==
  IF p.syncWithUrl THEN initialStateFrom(p, parseUrlParams(sp))
  ELSE [page |-> Num(1),
        limit |-> DEFAULT_LIMIT,
        queryValue |-> <<>>,
        filters |-> <<>>,
        sort |-> Null,
        selectedView |-> 0,
        filtersRef |-> OwnRef]

\* useDataSource: views = [All, ...defaultViews]
hookViews(p) == <<AllView>> \o defaultViewsOf(p)

\* views[index]?.name || null, index counted from 0.
viewNameAt(vs, index) ==
  IF index + 1 \in 1..Len(vs) /\ vs[index + 1].name # <<>>
  THEN Str(vs[index + 1].name) ELSE Null

\* What the debounced URL sync closes over: the state and the views of the
\* render that scheduled it.
SyncClosure(st, vs) ==
  [page |-> st.page, sort |-> st.sort, queryValue |-> st.queryValue,
   filters |-> st.filters, viewSelected |-> viewNameAt(vs, st.selectedView)]

\* What the debounced fetch closes over: the dependencies of fetchRemoteData.
FetchClosure(st) ==
  [page |-> st.page, limit |-> st.limit, sort |-> st.sort,
   filters |-> st.filters, queryValue |-> st.queryValue]

\* A JavaScript object with one property set / deleted.
With(f, k, v) == [x \in (DOMAIN f) \cup {k} |-> IF x = k THEN v ELSE f[x]]
Without(f, k) == [x \in (DOMAIN f) \ {k} |-> f[x]]

\* debounce: cancel() clears the pending timer.
debounceCancel(timers) == {}

\* debounce: a call of the debounced function sets its timer.
debounceCall(timers, closure) == timers \cup {closure}

\* What an instance shows of its data: items, total, loading, firstLoad, error.
DataOf(i) ==
  [items |-> items[i], total |-> total[i], loading |-> loading[i],
   firstLoad |-> firstLoad[i], error |-> error[i]]

\* A transport call whose promise has settled.
Settled(request) ==
  [request EXCEPT !.status = "settled", !.aborted = FALSE, !.was = Null]

\* abortRequest without the abort(): the controller is only forgotten.
abortRequestSilent(endpoint) ==
  [requests |-> requests, abortControllers |-> Without(abortControllers, endpoint)]

\* abortRequest: signal and forget the controller registered for the endpoint
\* (the signal of a request that has settled reaches nobody).
abortRequest(endpoint) ==
  IF endpoint \in DOMAIN abortControllers
  THEN [requests |-> [requests EXCEPT ![abortControllers[endpoint]].aborted =
                                        (@ \/ requests[abortControllers[endpoint]].status = "pending")],
        abortControllers |-> Without(abortControllers, endpoint)]
  ELSE [requests |-> requests, abortControllers |-> abortControllers]

\* The record of an operation: its name, its instance, the page and the
\* number of selected resources it found and, for a debounced function that
\* fired, whether it ran for another state than the current one.
Fired(op, i, stale) ==
  [op |-> op, inst |-> i, page |-> state[i].page,
   selected |-> Len(selectedResources[i]), stale |-> stale]
Did(op, i) == Fired(op, i, FALSE)

\* The URL-sync effect of a render with state st: the cleanup of the previous
\* run cancels its debounced sync, this run schedules a new one.
syncEffect(i, st) == debounceCall(debounceCancel(syncTimers[i]), SyncClosure(st, views[i]))

\* The URL-sync effect after a render that no setter caused.  In the hook its
\* dependencies (state, syncToUrl) changed only if views did, which is on
\* every render when the caller passes no defaultViews.  In ListTable they
\* are the state values and state.views, which such a render leaves alone.
syncAfterRender(i, timers) ==
  IF mounted[i] /\ props[i].kind = "hook" /\ ~props[i].givenViews
  THEN debounceCall(debounceCancel(timers), SyncClosure(state[i], views[i]))
  ELSE timers

\* A setter of useDataSource: setState, the render, and the effects the render
\* re-runs.  refetch: a dependency of fetchData changed, so the fetch effect's
\* cleanup cancels and aborts and the effect schedules the new fetch.
Commit(i, op, new, refetch) ==
  /\ mounted[i]
  /\ calls < MaxCalls
  /\ calls' = calls + 1
  /\ state' = [state EXCEPT ![i] = new]
  /\ syncTimers' = [syncTimers EXCEPT ![i] = syncEffect(i, new)]
  /\ IF refetch
     THEN /\ fetchTimers' = [fetchTimers EXCEPT ![i] =
                               debounceCall(debounceCancel(@), FetchClosure(new))]
          /\ requests' = abortRequest(props[i].endpoint).requests
          /\ abortControllers' = abortRequest(props[i].endpoint).abortControllers
     ELSE UNCHANGED fetchVars
  /\ last' = Did(op, i)
  /\ UNCHANGED <<codec, viewCalls, pager, engine, location, history, props, mounted, searchParams, views>>
  /\ UNCHANGED dataVars

\* useDataSource.setPage
setPage(i, page) ==
  /\ Commit(i, "setPage", [state[i] EXCEPT !.page = Num(page)], state[i].page # Num(page))
  /\ UNCHANGED selectionVars

\* setQueryValue without the page reset.
setQueryValueKeepsPage(i, queryValue) ==
  /\ Commit(i, "setQueryValue", [state[i] EXCEPT !.queryValue = queryValue],
            state[i].queryValue # queryValue)
  /\ UNCHANGED selectionVars

\* useDataSource.setQueryValue
setQueryValue(i, queryValue) ==
  /\ Commit(i, "setQueryValue",
            [state[i] EXCEPT !.queryValue = queryValue, !.page = Num(1)],
            state[i].queryValue # queryValue \/ state[i].page # Num(1))
  /\ UNCHANGED selectionVars

\* useDataSource.setFilter
setFilter(i, key, value) ==
  /\ Commit(i, "setFilter",
            [state[i] EXCEPT !.filters = With(@, key, value), !.page = Num(1),
                             !.filtersRef = OwnRef],
            TRUE)
  /\ UNCHANGED selectionVars

\* useDataSource.setFilters
setFilters(i, filters) ==
  /\ Commit(i, "setFilters",
            [state[i] EXCEPT !.filters = filters, !.page = Num(1), !.filtersRef = OwnRef],
            TRUE)
  /\ UNCHANGED selectionVars

\* useDataSource.clearFilters
clearFilters(i) ==
  /\ Commit(i, "clearFilters",
            [state[i] EXCEPT !.filters = <<>>, !.queryValue = <<>>, !.page = Num(1),
                             !.filtersRef = OwnRef],
            TRUE)
  /\ UNCHANGED selectionVars

\* useDataSource.setSort
setSort(i, sort) ==
  /\ Commit(i, "setSort", [state[i] EXCEPT !.sort = sort],
            ~(sort = Null /\ state[i].sort = Null))
  /\ UNCHANGED selectionVars

\* useDataSource.setSelectedView: nothing happens for an index without a view.
setSelectedView(i, index) ==
  /\ index + 1 \in 1..Len(views[i])
  /\ Commit(i, "setSelectedView",
            [state[i] EXCEPT !.selectedView = index,
                             !.filters = views[i][index + 1].filters,
                             !.page = Num(1),
                             !.filtersRef = index],
            \/ ~props[i].givenViews
            \/ state[i].filtersRef # index
            \/ state[i].page # Num(1))
  /\ UNCHANGED selectionVars

\* useDataSource.refresh
refresh(i) ==
  /\ Commit(i, "refresh", state[i], TRUE)
  /\ UNCHANGED selectionVars

\* The debounced fetch fires: fetchData up to the await of the transport
\* (setLoading, setError, then fetchRemoteData: abortRequest, a new controller
\* registered for the endpoint, the transport called).
FetchFire(i) ==
  \E c \in fetchTimers[i] :
    LET e == props[i].endpoint
        a == abortRequest(e)
        rerender == ~loading[i] \/ error[i] # Null
    IN /\ Len(requests) < MaxReq
       /\ fetchTimers' = [fetchTimers EXCEPT ![i] = @ \ {c}]
       /\ loading' = [loading EXCEPT ![i] = TRUE]
       /\ error' = [error EXCEPT ![i] = Null]
       /\ requests' = Append(a.requests,
                             [inst |-> i, endpoint |-> e,
                              aborted |-> FALSE, status |-> "pending",
                              was |-> DataOf(i)])
       /\ abortControllers' = With(a.abortControllers, e, Len(requests) + 1)
       /\ syncTimers' = [syncTimers EXCEPT ![i] =
                           IF rerender THEN syncAfterRender(i, @) ELSE @]
       /\ last' = Fired("fetchData", i, c # FetchClosure(state[i]))
       /\ UNCHANGED <<calls, codec, viewCalls, pager, engine, location, history, props, mounted, searchParams, state, views,
                      items, total, firstLoad, applied>>
       /\ UNCHANGED selectionVars

\* May the transport still resolve, or fail with an error of its own, for
\* request r?  One that honours the signal rejects with AbortError once aborted.
Delivers(r) ==
  /\ requests[r].status = "pending"
  /\ props[requests[r].inst].honoursSignal => ~requests[r].aborted

\* The transport resolves request r: the rest of fetchRemoteData and fetchData.
\* React drops the state updates of an unmounted component.
Resolve(r, response) ==
  LET i == requests[r].inst
  IN /\ Delivers(r)
     /\ requests' = [requests EXCEPT ![r] = Settled(@)]
     /\ IF mounted[i]
        THEN /\ items' = [items EXCEPT ![i] = response.items]
             /\ total' = [total EXCEPT ![i] = response.total]
             /\ loading' = [loading EXCEPT ![i] = FALSE]
             /\ firstLoad' = [firstLoad EXCEPT ![i] = FALSE]
             /\ applied' = [applied EXCEPT ![i] = r]
        ELSE UNCHANGED <<items, total, loading, firstLoad, applied>>
     /\ syncTimers' = [syncTimers EXCEPT ![i] = syncAfterRender(i, @)]
     /\ last' = Did(IF mounted[i] THEN "resolved" ELSE "dropped", i)
     /\ UNCHANGED <<calls, codec, viewCalls, pager, engine, location, history, props, mounted, searchParams, state, views, error,
                    fetchTimers, abortControllers>>
     /\ UNCHANGED selectionVars

\* A fetchData that treats AbortError as any other error.
RejectAbortSurfaces(r) ==
  /\ requests[r].status = "pending"
  /\ requests[r].aborted
  /\ requests' = [requests EXCEPT ![r] = Settled(@)]
  /\ error' = [error EXCEPT ![requests[r].inst] = Str(S(<<"a","b","o","r","t">>))]
  /\ loading' = [loading EXCEPT ![requests[r].inst] = FALSE]
  /\ last' = Did("cancelled", requests[r].inst)
  /\ UNCHANGED <<calls, codec, viewCalls, pager, engine, location, history, props, mounted, searchParams, state, views,
                 syncTimers, fetchTimers, abortControllers, items, total, firstLoad,
                 applied>>
  /\ UNCHANGED selectionVars

\* The transport rejects request r with AbortError: fetchRemoteData returns
\* null and fetchData sets nothing.
RejectAbort(r) ==
  /\ requests[r].status = "pending"
  /\ requests[r].aborted
  /\ requests' = [requests EXCEPT ![r] = Settled(@)]
  /\ last' = Did("cancelled", requests[r].inst)
  /\ UNCHANGED <<calls, codec, viewCalls, pager, engine, location, history, props, mounted, searchParams, state, views,
                 syncTimers, fetchTimers, abortControllers>>
  /\ UNCHANGED dataVars
  /\ UNCHANGED selectionVars

\* A catch block of fetchData that also empties the list.
RejectErrorWipes(r) ==
  LET i == requests[r].inst
  IN /\ Delivers(r)
     /\ requests' = [requests EXCEPT ![r] = Settled(@)]
     /\ error' = [error EXCEPT ![i] = Str(S(<<"e","r","r","o","r">>))]
     /\ loading' = [loading EXCEPT ![i] = FALSE]
     /\ firstLoad' = [firstLoad EXCEPT ![i] = FALSE]
     /\ items' = [items EXCEPT ![i] = <<>>]
     /\ total' = [total EXCEPT ![i] = 0]
     /\ syncTimers' = [syncTimers EXCEPT ![i] = syncAfterRender(i, @)]
     /\ last' = Did(IF mounted[i] THEN "failed" ELSE "dropped", i)
     /\ UNCHANGED <<calls, codec, viewCalls, pager, engine, location, history, props, mounted, searchParams, state, views,
                    applied, fetchTimers, abortControllers>>
     /\ UNCHANGED selectionVars

\* The transport fails request r (non-2xx status, network error): the catch
\* block of fetchData.
RejectError(r) ==
  LET i == requests[r].inst
  IN /\ Delivers(r)
     /\ requests' = [requests EXCEPT ![r] = Settled(@)]
     /\ IF mounted[i]
        THEN /\ error' = [error EXCEPT ![i] = Str(S(<<"e","r","r","o","r">>))]
             /\ loading' = [loading EXCEPT ![i] = FALSE]
             /\ firstLoad' = [firstLoad EXCEPT ![i] = FALSE]
        ELSE UNCHANGED <<error, loading, firstLoad>>
     /\ syncTimers' = [syncTimers EXCEPT ![i] = syncAfterRender(i, @)]
     /\ last' = Did(IF mounted[i] THEN "failed" ELSE "dropped", i)
     /\ UNCHANGED <<calls, codec, viewCalls, pager, engine, location, history, props, mounted, searchParams, state, views,
                    items, total, applied, fetchTimers, abortControllers>>
     /\ UNCHANGED selectionVars

\* The debounced URL sync fires: syncToUrl, then useUrlParams.setSearchParams
\* (pushState and a new snapshot, hence a render).
SyncFire(i) ==
  \E c \in syncTimers[i] :
    /\ props[i].kind = "hook"
    /\ IF props[i].syncWithUrl
       THEN /\ location' = serializeToUrlParams(c, location)
            /\ history' = (history + 1) % HistoryMod
            /\ searchParams' = [searchParams EXCEPT ![i] = location']
            /\ syncTimers' = [syncTimers EXCEPT ![i] = syncAfterRender(i, @ \ {c})]
       ELSE /\ UNCHANGED <<location, history, searchParams>>
            /\ syncTimers' = [syncTimers EXCEPT ![i] = @ \ {c}]
    /\ last' = Fired("syncToUrl", i, c # SyncClosure(state[i], views[i]))
    /\ UNCHANGED <<calls, codec, viewCalls, pager, engine, props, mounted, state, views>>
    /\ UNCHANGED fetchVars
    /\ UNCHANGED dataVars
    /\ UNCHANGED selectionVars

\* Unmount that leaves the debounced fetch pending.
UnmountKeepsTimers(i) ==
  /\ mounted[i]
  /\ mounted' = [mounted EXCEPT ![i] = FALSE]
  /\ syncTimers' = [syncTimers EXCEPT ![i] = debounceCancel(@)]
  /\ requests' = abortRequest(props[i].endpoint).requests
  /\ abortControllers' = abortRequest(props[i].endpoint).abortControllers
  /\ last' = Did("unmount", i)
  /\ UNCHANGED <<calls, codec, viewCalls, pager, engine, location, history, props, searchParams, state,
                 views, fetchTimers>>
  /\ UNCHANGED dataVars
  /\ UNCHANGED selectionVars

\* Unmount: the cleanups of the two effects.
Unmount(i) ==
  /\ mounted[i]
  /\ mounted' = [mounted EXCEPT ![i] = FALSE]
  /\ syncTimers' = [syncTimers EXCEPT ![i] = debounceCancel(@)]
  /\ fetchTimers' = [fetchTimers EXCEPT ![i] = debounceCancel(@)]
  /\ requests' = abortRequest(props[i].endpoint).requests
  /\ abortControllers' = abortRequest(props[i].endpoint).abortControllers
  /\ last' = Did("unmount", i)
  /\ UNCHANGED <<calls, codec, viewCalls, pager, engine, location, history, props, searchParams, state, views>>
  /\ UNCHANGED dataVars
  /\ UNCHANGED selectionVars

\* The codec at rest, while an orchestrator runs.
CodecIdle == [step |-> "idle"]

\* No usePagination hook under test.
PagerIdle == [step |-> "idle"]

\* No local engine under test.
EngineIdle == [step |-> "idle"]

\* The instances of "on" mounted, the others not: instance 1 under props p
\* and address bar url with initial state st and views vs, any other one
\* under NoProps, which gives it the same state and views when p does not
\* read the address bar.  A mounted instance has done its first render and
\* its effects (the fetch is scheduled, the URL sync skips the initial mount)
\* and the render useUrlParams' mount effect causes; syncPending: that render
\* re-ran the URL-sync effect of instance 1.
MountedWith(p, url, st, vs, syncPending, on) ==
  /\ location = url
  /\ history = 0
  /\ props = [i \in Inst |-> IF i = 1 THEN p ELSE NoProps]
  /\ mounted = [i \in Inst |-> i \in on]
  /\ searchParams = [i \in Inst |-> IF i = 1 THEN url ELSE EmptyParams]
  /\ state = [i \in Inst |-> st]
  /\ views = [i \in Inst |-> IF i \in on THEN vs ELSE <<AllView>>]
  /\ syncTimers = [i \in Inst |-> IF i = 1 /\ syncPending
                                  THEN {SyncClosure(st, vs)} ELSE {}]
  /\ fetchTimers = [i \in Inst |-> IF i \in on THEN {FetchClosure(st)} ELSE {}]
  /\ last = [op |-> "mount", inst |-> 1, page |-> st.page, selected |-> 0,
             stale |-> FALSE]

\* A useDataSource hook, mounted: the URL-sync effect re-ran if views changed
\* with the second render.
HookMounted(p, url, on) ==
  MountedWith(p, url, getInitialState(p, url), hookViews(p), ~p.givenViews, on)

\* What every instance starts with, mounted or not.
FreshData ==
  /\ items = [i \in Inst |-> <<>>]
  /\ total = [i \in Inst |-> 0]
  /\ loading = [i \in Inst |-> TRUE]
  /\ firstLoad = [i \in Inst |-> TRUE]
  /\ error = [i \in Inst |-> Null]
  /\ selectedResources = [i \in Inst |-> <<>>]
  /\ allResourcesSelected = [i \in Inst |-> FALSE]
  /\ applied = [i \in Inst |-> 0]
  /\ requests = <<>>
  /\ abortControllers = <<>>
  /\ calls = 0

\* One useDataSource instance, mounted under any props of the pool; with
\* syncWithUrl and the views given, under any address bar of the pool (the
\* address bar is not read without syncWithUrl).
Init ==
  /\ codec = CodecIdle
  /\ pager = PagerIdle
  /\ engine = EngineIdle
  /\ viewCalls = <<>>
  /\ FreshData
  /\ \E p \in PropsPool, url \in OrchUrls :
       /\ (p.syncWithUrl /\ p.givenViews) \/ url = EmptyParams
       /\ HookMounted(p, url, {1})

Next ==
  \/ \E i \in Inst, page \in Pages : setPage(i, page)
  \/ \E i \in Inst, queryValue \in OrchQueries : setQueryValue(i, queryValue)
  \/ \E i \in Inst, value \in OrchFilterValues : setFilter(i, kStatus, value)
  \/ \E i \in Inst, filters \in OrchFilters : setFilters(i, filters)
  \/ \E i \in Inst : clearFilters(i)
  \/ \E i \in Inst, sort \in OrchSorts : setSort(i, sort)
  \/ \E i \in Inst, index \in 0..1 : setSelectedView(i, index)
  \/ \E i \in Inst : refresh(i)
  \/ \E i \in Inst : FetchFire(i)
  \/ \E r \in DOMAIN requests, response \in Responses : Resolve(r, response)
  \/ \E r \in DOMAIN requests : RejectAbort(r)
  \/ \E r \in DOMAIN requests : RejectError(r)
  \/ \E i \in Inst : SyncFire(i)
  \/ \E i \in Inst : Unmount(i)

Spec == Init /\ [][Next]_vars

\* A back or forward navigation to the history entry url: the browser changes
\* the address bar and fires popstate, and the listener of useUrlParams in
\* every mounted hook takes a new snapshot of the parameters, hence a render.
popstate(url) ==
  /\ url # location
  /\ \E i \in Inst : mounted[i]
  /\ \A i \in Inst : mounted[i] => props[i].kind = "hook"
  /\ location' = url
  /\ searchParams' = [i \in Inst |-> IF mounted[i] THEN url ELSE searchParams[i]]
  /\ syncTimers' = [i \in Inst |-> syncAfterRender(i, syncTimers[i])]
  /\ last' = Did("popstate", 1)
  /\ UNCHANGED <<calls, codec, viewCalls, pager, engine, history, props, mounted, state, views>>
  /\ UNCHANGED fetchVars
  /\ UNCHANGED dataVars
  /\ UNCHANGED selectionVars

\* One useDataSource instance on a page whose user also navigates the history.
NextNav == Next \/ \E url \in OrchUrls : popstate(url)

SpecNav == Init /\ [][NextNav]_vars

\* A page with two useDataSource instances for the same endpoint, neither
\* reading the address bar: they share the module's abortControllers map.
InitPage ==
  /\ codec = CodecIdle
  /\ pager = PagerIdle
  /\ engine = EngineIdle
  /\ viewCalls = <<>>
  /\ FreshData
  /\ HookMounted(NoProps, EmptyParams, Inst)

SpecPage == InitPage /\ [][Next]_vars

\* The same page, with what the timers and the transport guarantee: a debounced
\* call that stays pending fires, and a request that stays pending settles
\* (resolved, failed, or rejected with AbortError once cancelled).
SpecPageFair ==
  /\ SpecPage
  /\ WF_vars(\E i \in Inst : FetchFire(i))
  /\ WF_vars(\E i \in Inst : SyncFire(i))
  /\ WF_vars(\E r \in DOMAIN requests :
               \/ \E response \in Responses : Resolve(r, response)
               \/ RejectAbort(r)
               \/ RejectError(r))

(***************************************************************************)
(* The ListTable component.  It keeps page, queryValue, filterValues and   *)
(* sortState (state[i] here, with state.selected as selectedView), the     *)
(* views (views[i]) and, through the selection tracker, selectedResources  *)
(* and allResourcesSelected.  fetchData, the fetch effect and the unmount  *)
(* cleanups are those of the hook, line for line, on the component's own   *)
(* abortControllers map: FetchFire, Resolve, RejectAbort, RejectError and  *)
(* Unmount above serve both.  The tables modelled are given their          *)
(* defaultViews (and no views prop, no viewsEndpoint).                     *)
(***************************************************************************)
TablePropsPool == {Props("table", FALSE, TRUE, TRUE), Props("table", TRUE, TRUE, TRUE)}

\* The address bars a table can be mounted under.
TableUrls == {EmptyParams, (kPage :> S(<<"2">>)) @@ (kViewSelected :> sViewV)}

\* polarisToSort
polarisToSort(selected) ==
  IF selected = <<>> THEN Null
  ELSE IF selected[1] = <<>> THEN Null
  ELSE LET parts == Split(selected[1], 32)
       IN IF Len(parts) = 2 /\ parts[1] # <<>> /\ parts[2] \in {sAsc, sDesc}
          THEN [field |-> parts[1], direction |-> parts[2]]
          ELSE Null

\* What IndexFilters can hand to setSort.
TableSortChoices == {<<>>, <<S(<<"a"," ","a","s","c">>)>>, <<S(<<"a"," ","u","p">>)>>}

\* ListTable.getInitialState, once the address bar is parsed.
ListTable_initialStateFrom(parsed) ==
  [page |-> parsed.page,
   limit |-> DEFAULT_LIMIT,
   queryValue |-> parsed.queryValue,
   filters |-> parsed.filters,
   sort |-> parsed.sort,
   selectedView |-> 0,
   filtersRef |-> OwnRef]

\* ListTable.getInitialState
ListTable_getInitialState(p, sp) ==
  IF p.syncWithUrl THEN ListTable_initialStateFrom(parseUrlParams(sp))
  ELSE [page |-> Num(1),
        limit |-> DEFAULT_LIMIT,
        queryValue |-> <<>>,
        filters |-> <<>>,
        sort |-> Null,
        selectedView |-> 0,
        filtersRef |-> OwnRef]

\* The views the initViews effect computes.
initViewsList(p) == <<AllView>> \o defaultViewsOf(p)

\* The selected index the initViews effect computes for the list vs from
\* the viewSelected parameter of the snapshot sp.
selectedIndex(vs, sp) ==
  Max(0, IF Truthy(sp, kViewSelected) THEN findIndex(vs, sp[kViewSelected]) ELSE 0)

initViewsSelected(p, sp) == selectedIndex(initViewsList(p), sp)

\* A call of the views endpoint: the instance that made it, the action, the
\* view it carries (create) and the snapshot of the parameters its caller
\* closed over (load).
ViewCall(i, action, view, sp) == [inst |-> i, action |-> action, view |-> view, sp |-> sp]

\* clearSelection
clearSelection(i) ==
  /\ selectedResources' = [selectedResources EXCEPT ![i] = <<>>]
  /\ allResourcesSelected' = [allResourcesSelected EXCEPT ![i] = FALSE]

\* A handler of ListTable: its setState calls, the render, and the effects
\* the render re-runs.  resync: a dependency of the URL-sync effect changed;
\* refetch: a dependency of fetchData changed.
ListTable_render(i, op, new, resync, refetch) ==
  /\ mounted[i]
  /\ calls < MaxCalls
  /\ calls' = calls + 1
  /\ state' = [state EXCEPT ![i] = new]
  /\ syncTimers' = [syncTimers EXCEPT ![i] =
                      IF props[i].syncWithUrl /\ resync
                      THEN debounceCall(debounceCancel(@), SyncClosure(new, views[i]))
                      ELSE @]
  /\ IF refetch
     THEN /\ fetchTimers' = [fetchTimers EXCEPT ![i] =
                               debounceCall(debounceCancel(@), FetchClosure(new))]
          /\ requests' = abortRequest(props[i].endpoint).requests
          /\ abortControllers' = abortRequest(props[i].endpoint).abortControllers
     ELSE UNCHANGED fetchVars
  /\ last' = Did(op, i)
  /\ UNCHANGED <<codec, viewCalls, pager, engine, location, history, props, mounted, searchParams, views>>
  /\ UNCHANGED dataVars

\* handleSetPage without the clearSelection().
handleSetPageKeepsSelection(i, newPage) ==
  /\ ListTable_render(i, "handleSetPage", [state[i] EXCEPT !.page = Num(newPage)],
                      state[i].page # Num(newPage), state[i].page # Num(newPage))
  /\ UNCHANGED selectionVars

\* ListTable.handleSetPage
handleSetPage(i, newPage) ==
  /\ ListTable_render(i, "handleSetPage", [state[i] EXCEPT !.page = Num(newPage)],
                      state[i].page # Num(newPage), state[i].page # Num(newPage))
  /\ clearSelection(i)

\* ListTable.handleSetQueryValue
handleSetQueryValue(i, value) ==
  /\ ListTable_render(i, "handleSetQueryValue",
                      [state[i] EXCEPT !.queryValue = value, !.page = Num(1)],
                      state[i].queryValue # value \/ state[i].page # Num(1),
                      state[i].queryValue # value \/ state[i].page # Num(1))
  /\ clearSelection(i)

\* ListTable.handleSetFilterValues
handleSetFilterValues(i, filters) ==
  /\ ListTable_render(i, "handleSetFilterValues",
                      [state[i] EXCEPT !.filters = filters, !.page = Num(1)],
                      TRUE, TRUE)
  /\ clearSelection(i)

\* ListTable.setSort
ListTable_setSort(i, selected) ==
  /\ ListTable_render(i, "ListTable.setSort",
                      [state[i] EXCEPT !.sort = polarisToSort(selected)],
                      ~(polarisToSort(selected) = Null /\ state[i].sort = Null),
                      ~(polarisToSort(selected) = Null /\ state[i].sort = Null))
  /\ clearSelection(i)

\* ListTable.handleSetSelectedView
handleSetSelectedView(i, index) ==
  /\ ListTable_render(i, "handleSetSelectedView",
                      [state[i] EXCEPT !.selectedView = index],
                      state[i].selectedView # index, FALSE)
  /\ UNCHANGED selectionVars


\* Array.prototype.indexOf, counted from 0: -1 when x is not in seq.
indexOf(seq, x) ==
  LET hits == {k \in 1..Len(seq) : seq[k] = x}
  IN IF hits = {} THEN 0 - 1
     ELSE (CHOOSE k \in hits : \A h \in hits : k <= h) - 1

Min(a, b) == IF a <= b THEN a ELSE b

RECURSIVE Unique(_)
\* [...new Set(seq)]: the first occurrence of each element, in order.
Unique(seq) ==
  IF seq = <<>> THEN <<>>
  ELSE LET init == Unique(SubSeq(seq, 1, Len(seq) - 1))
           x == seq[Len(seq)]
       IN IF indexOf(init, x) >= 0 THEN init ELSE Append(init, x)

\* prev.filter((id) => keep(id)), for the two filters of the tracker.
WithoutId(seq, id) == SelectSeq(seq, LAMBDA x : x # id)
WithoutRange(seq, range) == SelectSeq(seq, LAMBDA x : indexOf(range, x) < 0)

\* selectionAfter whose "single" replaces the selection by the one id.
selectionAfterSingleReplaces(prev, itemIds, selectionType, toggleType, selection, position) ==
  LET lastIndex == IF prev = <<>> THEN 0 - 1 ELSE indexOf(itemIds, prev[Len(prev)])
      range == SubSeq(itemIds, Min(lastIndex, position) + 1, Max(lastIndex, position) + 1)
  IN IF selectionType = "single" THEN
       (IF toggleType THEN <<selection>> ELSE WithoutId(prev, selection))
     ELSE IF selectionType = "multi" THEN
       (IF lastIndex < 0 THEN prev
        ELSE IF toggleType THEN Unique(prev \o range)
        ELSE WithoutRange(prev, range))
     ELSE (IF toggleType THEN itemIds ELSE <<>>)

\* selectionAfter whose "page" adds the page to the selection.
selectionAfterPageAdds(prev, itemIds, selectionType, toggleType, selection, position) ==
  LET lastIndex == IF prev = <<>> THEN 0 - 1 ELSE indexOf(itemIds, prev[Len(prev)])
      range == SubSeq(itemIds, Min(lastIndex, position) + 1, Max(lastIndex, position) + 1)
  IN IF selectionType = "single" THEN
       (IF toggleType THEN Append(prev, selection) ELSE WithoutId(prev, selection))
     ELSE IF selectionType = "multi" THEN
       (IF lastIndex < 0 THEN prev
        ELSE IF toggleType THEN Unique(prev \o range)
        ELSE WithoutRange(prev, range))
     ELSE IF selectionType = "page" THEN
       (IF toggleType THEN Unique(prev \o itemIds) ELSE <<>>)
     ELSE (IF toggleType THEN itemIds ELSE <<>>)

\* selectionAfter whose range leaves out the position clicked or the anchor.
selectionAfterOpenRange(prev, itemIds, selectionType, toggleType, selection, position) ==
  LET lastIndex == IF prev = <<>> THEN 0 - 1 ELSE indexOf(itemIds, prev[Len(prev)])
      range == SubSeq(itemIds, Min(lastIndex, position) + 1, Max(lastIndex, position))
  IN IF selectionType = "single" THEN
       (IF toggleType THEN Append(prev, selection) ELSE WithoutId(prev, selection))
     ELSE IF selectionType = "multi" THEN
       (IF lastIndex < 0 THEN prev
        ELSE IF toggleType THEN Unique(prev \o range)
        ELSE WithoutRange(prev, range))
     ELSE (IF toggleType THEN itemIds ELSE <<>>)

\* selectionAfter whose "all" leaves the selected ids alone.
selectionAfterAllFlagOnly(prev, itemIds, selectionType, toggleType, selection, position) ==
  LET lastIndex == IF prev = <<>> THEN 0 - 1 ELSE indexOf(itemIds, prev[Len(prev)])
      range == SubSeq(itemIds, Min(lastIndex, position) + 1, Max(lastIndex, position) + 1)
  IN IF selectionType = "single" THEN
       (IF toggleType THEN Append(prev, selection) ELSE WithoutId(prev, selection))
     ELSE IF selectionType = "multi" THEN
       (IF lastIndex < 0 THEN prev
        ELSE IF toggleType THEN Unique(prev \o range)
        ELSE WithoutRange(prev, range))
     ELSE IF selectionType = "all" THEN prev
     ELSE (IF toggleType THEN itemIds ELSE <<>>)

\* The selection the tracker holds after handleSelectionChange; itemIds are
\* the ids of the current page, position counts from 0.
selectionAfter(prev, itemIds, selectionType, toggleType, selection, position) ==
  LET lastIndex == IF prev = <<>> THEN 0 - 1 ELSE indexOf(itemIds, prev[Len(prev)])
      range == SubSeq(itemIds, Min(lastIndex, position) + 1, Max(lastIndex, position) + 1)
  IN IF selectionType = "single" THEN
       (IF toggleType THEN Append(prev, selection) ELSE WithoutId(prev, selection))
     ELSE IF selectionType = "multi" THEN
       (IF lastIndex < 0 THEN prev
        ELSE IF toggleType THEN Unique(prev \o range)
        ELSE WithoutRange(prev, range))
     ELSE (IF toggleType THEN itemIds ELSE <<>>)

\* handleSelectionChange, as the table calls it: a row's checkbox toggles to
\* what the row is not ("single", "multi", with the row's id and position),
\* the header's selects or clears the page or everything ("page", "all").
handleSelectionChange(i, selectionType, toggleType, position) ==
  /\ mounted[i]
  /\ position + 1 \in 1..Len(items[i])
  /\ selectionType \in {"single", "multi"} =>
       toggleType = (indexOf(selectedResources[i], items[i][position + 1]) < 0)
  /\ selectionType \in {"page", "all"} => position = 0
  /\ selectedResources' =
       [selectedResources EXCEPT ![i] =
          selectionAfter(@, items[i], selectionType, toggleType,
                         items[i][position + 1], position)]
  /\ allResourcesSelected' =
       [allResourcesSelected EXCEPT ![i] = selectionType = "all" /\ toggleType]
  /\ last' = Did("handleSelectionChange", i)
  /\ UNCHANGED <<calls, codec, viewCalls, pager, engine, location, history, props, mounted, searchParams, state, views,
                 syncTimers>>
  /\ UNCHANGED fetchVars
  /\ UNCHANGED dataVars

\* What follows the pushState of a table's URL sync, loc being the address
\* bar written: the new snapshot re-runs the initViews effect, which sets
\* the views again and the selected index loc names, and the new state.views
\* re-runs the URL-sync effect.
\* With a viewsEndpoint the effect awaits the views first: nothing is set
\* until that call settles.
ListTable_afterSync(i, c, loc) ==
  /\ location' = loc
  /\ history' = (history + 1) % HistoryMod
  /\ searchParams' = [searchParams EXCEPT ![i] = loc]
  /\ IF props[i].viewsEndpoint
     THEN /\ viewCalls' = Append(viewCalls, ViewCall(i, "load", Null, loc))
          /\ syncTimers' = [syncTimers EXCEPT ![i] = @ \ {c}]
          /\ UNCHANGED <<views, state>>
     ELSE /\ views' = [views EXCEPT ![i] = initViewsList(props[i])]
          /\ state' = [state EXCEPT ![i].selectedView = initViewsSelected(props[i], loc)]
          /\ syncTimers' = [syncTimers EXCEPT ![i] =
                              debounceCall(debounceCancel(@ \ {c}),
                                           SyncClosure(state'[i], views'[i]))]
          /\ UNCHANGED viewCalls

\* The debounced URL sync of a table fires.
ListTable_SyncFire(i) ==
  \E c \in syncTimers[i] :
    /\ props[i].kind = "table"
    /\ ListTable_afterSync(i, c, serializeToUrlParams(c, location))
    /\ last' = Fired("syncToUrl", i, c # SyncClosure(state[i], views[i]))
    /\ UNCHANGED <<calls, codec, pager, engine, props, mounted>>
    /\ UNCHANGED fetchVars
    /\ UNCHANGED dataVars
    /\ UNCHANGED selectionVars

\* A ListTable, mounted: the initViews effect has set the views and the
\* selected index, which re-ran the URL-sync effect (it schedules a sync
\* only with syncWithUrl).
TableMountedWith(p, url, st) ==
  MountedWith(p, url, [st EXCEPT !.selectedView = initViewsSelected(p, url)],
              initViewsList(p), p.syncWithUrl, {1})

TableMounted(p, url) == TableMountedWith(p, url, ListTable_getInitialState(p, url))

InitLT ==
  /\ codec = CodecIdle
  /\ pager = PagerIdle
  /\ engine = EngineIdle
  /\ viewCalls = <<>>
  /\ FreshData
  /\ \E p \in TablePropsPool, url \in TableUrls :
       /\ p.syncWithUrl \/ url = EmptyParams
       /\ TableMounted(p, url)

NextLT ==
  \/ \E i \in Inst, newPage \in Pages : handleSetPage(i, newPage)
  \/ \E i \in Inst, value \in OrchQueries : handleSetQueryValue(i, value)
  \/ \E i \in Inst, filters \in OrchFilters : handleSetFilterValues(i, filters)
  \/ \E i \in Inst, selected \in TableSortChoices : ListTable_setSort(i, selected)
  \/ \E i \in Inst, index \in 0..1 : handleSetSelectedView(i, index)
  \/ \E i \in Inst, selectionType \in {"single", "page", "multi", "all"},
        toggleType \in BOOLEAN, position \in 0..1 :
       handleSelectionChange(i, selectionType, toggleType, position)
  \/ \E i \in Inst : FetchFire(i)
  \/ \E r \in DOMAIN requests, response \in Responses : Resolve(r, response)
  \/ \E r \in DOMAIN requests : RejectAbort(r)
  \/ \E r \in DOMAIN requests : RejectError(r)
  \/ \E i \in Inst : ListTable_SyncFire(i)
  \/ \E i \in Inst : Unmount(i)

SpecLT == InitLT /\ [][NextLT]_vars

\* The same, with what the timers and the transport guarantee: a debounced
\* call that stays pending fires, and a request that stays pending settles.
SpecLTFair ==
  /\ SpecLT
  /\ WF_vars(\E i \in Inst : ListTable_SyncFire(i))
  /\ WF_vars(\E i \in Inst : FetchFire(i))
  /\ WF_vars(\E r \in DOMAIN requests, response \in Responses : Resolve(r, response))

(***************************************************************************)
(* The views of a ListTable: the tabs ListTableFilters builds, the view    *)
(* handlers of ListTable and the calls they make of the views endpoint.    *)
(***************************************************************************)
sW == S(<<"w">>)

\* The names a user gives a view.
ViewNames == {sW}

\* The items the views endpoint answers a load with.
RemoteViews == <<[name |-> S(<<"r">>), filters |-> (kQueryValue :> Str(sA))]>>

\* Tables with their views: local ones, and ones with a viewsEndpoint.
ViewsPropsPool ==
  { Props("table", FALSE, TRUE, TRUE),
    [Props("table", FALSE, TRUE, TRUE) EXCEPT !.viewsEndpoint = TRUE],
    [Props("table", TRUE, TRUE, TRUE) EXCEPT !.viewsEndpoint = TRUE] }

\* ListTable renders ListTableFilters unless there is an error, and
\* ListTableFilters renders the filter bar once the first load is over.
FilterBarShown(i) == mounted[i] /\ ~firstLoad[i] /\ error[i] = Null

\* { ...filterValues, queryValue }
snapshotOf(st) == With(st.filters, kQueryValue, Str(st.queryValue))

\* primaryAction.disabled: the filters and search text are those of the
\* selected view.
primaryActionDisabled(i) ==
  LET currentFilters == IF state[i].selectedView + 1 \in 1..Len(views[i])
                        THEN views[i][state[i].selectedView + 1].filters
                        ELSE <<>>
  IN With(currentFilters, kQueryValue,
          Str(queryOfView([name |-> <<>>, filters |-> currentFilters])))
       = snapshotOf(state[i])

\* seq.filter((_, i) => i !== k - 1)
RemoveAt(seq, k) == SubSeq(seq, 1, k - 1) \o SubSeq(seq, k + 1, Len(seq))

\* One more call of a handler.
Called == calls < MaxCalls /\ calls' = calls + 1

\* A setState of ListTable that gives it the state new and the views vs,
\* the render, and the effects the render re-runs: state.views is a new
\* array, so the URL-sync effect always; fetchData when refetch.
ListTable_renderViews(i, op, new, vs, refetch) ==
  /\ state' = [state EXCEPT ![i] = new]
  /\ views' = [views EXCEPT ![i] = vs]
  /\ syncTimers' = [syncTimers EXCEPT ![i] =
                      IF props[i].syncWithUrl
                      THEN debounceCall(debounceCancel(@), SyncClosure(new, vs))
                      ELSE @]
  /\ IF refetch
     THEN /\ fetchTimers' = [fetchTimers EXCEPT ![i] =
                               debounceCall(debounceCancel(@), FetchClosure(new))]
          /\ requests' = abortRequest(props[i].endpoint).requests
          /\ abortControllers' = abortRequest(props[i].endpoint).abortControllers
     ELSE UNCHANGED fetchVars
  /\ last' = Did(op, i)
  /\ UNCHANGED <<codec, pager, engine, location, history, props, mounted, searchParams>>
  /\ UNCHANGED dataVars

\* The updater given to setState throws (the transport it calls threw):
\* the update is not made and the render fails, so React unmounts the
\* component, running the cleanups of its effects.
renderError(i) ==
  /\ mounted' = [mounted EXCEPT ![i] = FALSE]
  /\ syncTimers' = [syncTimers EXCEPT ![i] = debounceCancel(@)]
  /\ fetchTimers' = [fetchTimers EXCEPT ![i] = debounceCancel(@)]
  /\ requests' = abortRequest(props[i].endpoint).requests
  /\ abortControllers' = abortRequest(props[i].endpoint).abortControllers
  /\ last' = Did("renderError", i)
  /\ UNCHANGED <<codec, pager, engine, location, history, props, searchParams, state, views>>
  /\ UNCHANGED dataVars

\* The setState at the end of handleCreateView that appends nothing new
\* to select: the view is appended, the selection stays.
appendViewUnselected(i, op, view) ==
  ListTable_renderViews(i, op, state[i], Append(views[i], view), FALSE)

\* The setState at the end of handleCreateView: the view appended to the
\* list as it is now, and selected.
appendView(i, op, view) ==
  ListTable_renderViews(i, op, [state[i] EXCEPT !.selectedView = Len(views[i])],
                        Append(views[i], view), FALSE)

\* ListTable.handleCreateView, up to the await of the views endpoint when
\* there is one, to its end when there is none.
handleCreateView(i, name) ==
  LET newView == [name |-> name, filters |-> snapshotOf(state[i])]
  IN /\ FilterBarShown(i)
     /\ Called
     /\ IF props[i].viewsEndpoint
        THEN /\ viewCalls' = Append(viewCalls, ViewCall(i, "create", newView, EmptyParams))
             /\ last' = Did("handleCreateView", i)
             /\ UNCHANGED <<codec, pager, engine, location, history, props, mounted, searchParams, state,
                            views, syncTimers>>
             /\ UNCHANGED fetchVars
             /\ UNCHANGED dataVars
        ELSE /\ appendView(i, "viewCreated", newView)
             /\ UNCHANGED viewCalls
     /\ UNCHANGED selectionVars

\* The create call k of the views endpoint settles, resolved (ok) or
\* rejected, which the catch block logs: the rest of handleCreateView.
\* React drops the state update of an unmounted component.
handleCreateView_settled(k, ok) ==
  LET i == viewCalls[k].inst
  IN /\ viewCalls[k].action = "create"
     /\ viewCalls' = RemoveAt(viewCalls, k)
     /\ IF mounted[i]
        THEN appendView(i, IF ok THEN "viewCreated" ELSE "viewCreatedUnsaved",
                        viewCalls[k].view)
        ELSE /\ last' = Did("dropped", i)
             /\ UNCHANGED <<codec, pager, engine, location, history, props, mounted, searchParams, state,
                            views, syncTimers>>
             /\ UNCHANGED fetchVars
             /\ UNCHANGED dataVars
     /\ UNCHANGED calls
     /\ UNCHANGED selectionVars

\* The load call k of the views endpoint settles, resolved with items (ok)
\* or rejected, which the catch block logs: the rest of initViews, with the
\* snapshot of the parameters the effect closed over.
initViews_settled(k, ok) ==
  LET i == viewCalls[k].inst
      vs == initViewsList(props[i]) \o (IF ok THEN RemoteViews ELSE <<>>)
  IN /\ viewCalls[k].action = "load"
     /\ viewCalls' = RemoveAt(viewCalls, k)
     /\ IF mounted[i]
        THEN ListTable_renderViews(i, IF ok THEN "viewsLoaded" ELSE "viewsLoadFailed",
               [state[i] EXCEPT !.selectedView = selectedIndex(vs, viewCalls[k].sp)],
               vs, FALSE)
        ELSE /\ last' = Did("dropped", i)
             /\ UNCHANGED <<codec, pager, engine, location, history, props, mounted, searchParams, state,
                            views, syncTimers>>
             /\ UNCHANGED fetchVars
             /\ UNCHANGED dataVars
     /\ UNCHANGED calls
     /\ UNCHANGED selectionVars

\* ListTable.handleRenameView, for a tab that has the action (index > 0).
\* With a viewsEndpoint the updater calls the transport and nobody awaits
\* or catches it: a rejection changes nothing, a throw fails the render.
handleRenameView(i, name, index, throws) ==
  /\ FilterBarShown(i)
  /\ index \in 1..(Len(views[i]) - 1)
  /\ throws => props[i].viewsEndpoint
  /\ Called
  /\ IF throws
     THEN renderError(i)
     ELSE ListTable_renderViews(i, "handleRenameView", state[i],
                                [views[i] EXCEPT ![index + 1].name = name], FALSE)
  /\ UNCHANGED viewCalls
  /\ UNCHANGED selectionVars

\* ListTable.handleDuplicateView, for a tab that has the action.
handleDuplicateView(i, name, index, throws) ==
  /\ FilterBarShown(i)
  /\ index \in 1..(Len(views[i]) - 1)
  /\ throws => props[i].viewsEndpoint
  /\ Called
  /\ IF throws
     THEN renderError(i)
     ELSE ListTable_renderViews(i, "handleDuplicateView",
            [state[i] EXCEPT !.selectedView = Len(views[i])],
            Append(views[i], [name |-> name, filters |-> views[i][index + 1].filters]),
            FALSE)
  /\ UNCHANGED viewCalls
  /\ UNCHANGED selectionVars

\* What handleDeleteView records: whether the deleted view was the active one.
DeleteOp(i, index) ==
  IF index = state[i].selectedView THEN "handleDeleteView(selected)"
  ELSE "handleDeleteView"

\* handleDeleteView without the handleSetFilterValues({}) and setQueryValue("").
handleDeleteViewKeepsFilters(i, index, throws) ==
  /\ FilterBarShown(i)
  /\ index \in 1..(Len(views[i]) - 1)
  /\ throws => props[i].viewsEndpoint
  /\ Called
  /\ IF throws
     THEN renderError(i)
     ELSE ListTable_renderViews(i, DeleteOp(i, index),
                                [state[i] EXCEPT !.selectedView = 0],
                                RemoveAt(views[i], index + 1), FALSE)
  /\ UNCHANGED viewCalls
  /\ UNCHANGED selectionVars

\* ListTable.handleDeleteView, for a tab that has the action: the setState,
\* then handleSetFilterValues({}) and setQueryValue("").
handleDeleteView(i, index, throws) ==
  /\ FilterBarShown(i)
  /\ index \in 1..(Len(views[i]) - 1)
  /\ throws => props[i].viewsEndpoint
  /\ Called
  /\ IF throws
     THEN renderError(i) /\ UNCHANGED selectionVars
     ELSE /\ ListTable_renderViews(i, DeleteOp(i, index),
               [state[i] EXCEPT !.selectedView = 0, !.filters = <<>>,
                                !.page = Num(1), !.queryValue = <<>>],
               RemoveAt(views[i], index + 1), TRUE)
          /\ clearSelection(i)
  /\ UNCHANGED viewCalls

\* ListTable.handleUpdateView, which the primary action is when a view
\* other than the first is selected.
handleUpdateView(i, throws) ==
  /\ FilterBarShown(i)
  /\ state[i].selectedView # 0
  /\ state[i].selectedView + 1 \in 1..Len(views[i])
  /\ ~primaryActionDisabled(i)
  /\ throws => props[i].viewsEndpoint
  /\ Called
  /\ IF throws
     THEN renderError(i)
     ELSE ListTable_renderViews(i, "handleUpdateView", state[i],
            [views[i] EXCEPT ![state[i].selectedView + 1].filters = snapshotOf(state[i])],
            FALSE)
  /\ UNCHANGED viewCalls
  /\ UNCHANGED selectionVars

\* A tab is clicked: its onAction (setFilterValues, setQueryValue) and the
\* onSelect of IndexFilters (handleSetSelectedView).
tabs_onAction(i, index) ==
  /\ FilterBarShown(i)
  /\ index + 1 \in 1..Len(views[i])
  /\ ListTable_render(i, "tabs.onAction",
                      [state[i] EXCEPT !.filters = views[i][index + 1].filters,
                                       !.queryValue = queryOfView(views[i][index + 1]),
                                       !.page = Num(1),
                                       !.selectedView = index],
                      TRUE, TRUE)
  /\ clearSelection(i)

\* A ListTable with its views, mounted: with a viewsEndpoint the initViews
\* effect awaits the views, the list is still the empty one of useState.
InitViews ==
  /\ codec = CodecIdle
  /\ pager = PagerIdle
  /\ engine = EngineIdle
  /\ FreshData
  /\ \E p \in ViewsPropsPool :
       IF p.viewsEndpoint
       THEN /\ viewCalls = <<ViewCall(1, "load", Null, EmptyParams)>>
            /\ MountedWith(p, EmptyParams, ListTable_getInitialState(p, EmptyParams),
                           <<>>, FALSE, {1})
       ELSE /\ viewCalls = <<>>
            /\ TableMounted(p, EmptyParams)

NextViews ==
  \/ \E i \in Inst, name \in ViewNames : handleCreateView(i, name)
  \/ \E k \in DOMAIN viewCalls, ok \in BOOLEAN : handleCreateView_settled(k, ok)
  \/ \E k \in DOMAIN viewCalls, ok \in BOOLEAN : initViews_settled(k, ok)
  \/ \E i \in Inst, name \in ViewNames, index \in 1..MaxViews, throws \in BOOLEAN :
       handleRenameView(i, name, index, throws)
  \/ \E i \in Inst, name \in ViewNames, index \in 1..MaxViews, throws \in BOOLEAN :
       handleDuplicateView(i, name, index, throws)
  \/ \E i \in Inst, index \in 1..MaxViews, throws \in BOOLEAN :
       handleDeleteView(i, index, throws)
  \/ \E i \in Inst, throws \in BOOLEAN : handleUpdateView(i, throws)
  \/ \E i \in Inst, index \in 0..MaxViews : tabs_onAction(i, index)
  \/ \E i \in Inst, value \in OrchQueries : handleSetQueryValue(i, value)
  \/ \E i \in Inst, filters \in OrchFilters : handleSetFilterValues(i, filters)
  \/ \E i \in Inst : FetchFire(i)
  \/ \E r \in DOMAIN requests, response \in Responses : Resolve(r, response)
  \/ \E r \in DOMAIN requests : RejectAbort(r)
  \/ \E r \in DOMAIN requests : RejectError(r)
  \/ \E i \in Inst : ListTable_SyncFire(i)
  \/ \E i \in Inst : Unmount(i)

SpecViews == InitViews /\ [][NextViews]_vars

\* A ListTable with its views kept locally (no viewsEndpoint) and syncWithUrl,
\* mounted under an empty query string.
InitViewsLocal ==
  /\ codec = CodecIdle
  /\ pager = PagerIdle
  /\ engine = EngineIdle
  /\ FreshData
  /\ viewCalls = <<>>
  /\ TableMounted(Props("table", TRUE, TRUE, TRUE), EmptyParams)

NextViewsLocal ==
  \/ \E i \in Inst, name \in ViewNames : handleCreateView(i, name)
  \/ \E i \in Inst, name \in ViewNames, index \in 1..MaxViews :
       handleRenameView(i, name, index, FALSE)
  \/ \E i \in Inst, name \in ViewNames, index \in 1..MaxViews :
       handleDuplicateView(i, name, index, FALSE)
  \/ \E i \in Inst, index \in 1..MaxViews : handleDeleteView(i, index, FALSE)
  \/ \E i \in Inst : handleUpdateView(i, FALSE)
  \/ \E i \in Inst, index \in 0..MaxViews : tabs_onAction(i, index)
  \/ \E i \in Inst, value \in OrchQueries : handleSetQueryValue(i, value)
  \/ \E i \in Inst, filters \in OrchFilters : handleSetFilterValues(i, filters)
  \/ \E i \in Inst : FetchFire(i)
  \/ \E r \in DOMAIN requests, response \in Responses : Resolve(r, response)
  \/ \E r \in DOMAIN requests : RejectAbort(r)
  \/ \E r \in DOMAIN requests : RejectError(r)
  \/ \E i \in Inst : ListTable_SyncFire(i)
  \/ \E i \in Inst : Unmount(i)

SpecViewsLocal == InitViewsLocal /\ [][NextViewsLocal]_vars

(***************************************************************************)
(* The codec on its own: serializeToUrlParams and parseUrlParams applied to *)
(* query states and to address bars drawn from bounded sets, with no        *)
(* instance mounted.                                                        *)
(***************************************************************************)
orchVars == <<location, history, props, mounted, searchParams, state, views, items, total,
              loading, firstLoad, error, selectedResources, allResourcesSelected,
              syncTimers, fetchTimers, requests, abortControllers, applied, calls,
              viewCalls, pager, engine, last>>

orchVarsButPager ==
  <<location, history, props, mounted, searchParams, state, views, items, total,
    loading, firstLoad, error, selectedResources, allResourcesSelected,
    syncTimers, fetchTimers, requests, abortControllers, applied, calls, last>>

sB == S(<<"b">>)
sNull == S(<<"n","u","l","l">>)
sTrue == S(<<"t","r","u","e">>)
sTen == S(<<"1","0">>)
sExp == S(<<"1","e","2">>)
sBrackets == S(<<"[","]">>)
sPercent == S(<<"%">>)

CodecQueries == {<<>>, sA, S(<<"a"," ","b">>), sPercent}

\* Filter values of every type of FilterValue: strings (some of them texts
\* that are JSON literals), string arrays, numbers, booleans.
CodecFilterValues ==
  { Str(sA), Str(<<>>), Str(sTen), Str(sExp), Str(sNull), Str(sTrue), Str(sBrackets),
    Arr(<<>>), Arr(<<Str(sA), Str(sB)>>), Number(10), Bool(TRUE) }

CodecFilters == {<<>>} \cup {(kStatus :> v) : v \in CodecFilterValues}

\* The valid query states given to the codec.
CodecStates ==
  [page : {Num(n) : n \in 1..MaxPage}, sort : OrchSorts, queryValue : CodecQueries,
   filters : CodecFilters, viewSelected : {Null, Str(sViewV)}]

\* Address bars nobody serialized: a visitor can type anything.
RawUrls ==
  { (kQuery :> sPercent),
    (kQuery :> S(<<"%","2","0">>)),
    ((kFilter \o kStatus) :> sPercent),
    ((kFilter \o kStatus) :> S(<<"{","a">>)),
    ((kFilter \o kStatus) :> S(<<"[","\"","a","\"","]">>)),
    (kSort :> sA),
    (kSort :> S(<<"a","|","u","p">>)),
    (kSort :> S(<<" ","a","|","d","e","s","c">>)),
    (kSort :> S(<<"b","|","d","e","s","c">>)),
    (kSort :> S(<<"|","a","s","c">>)),
    (kSort :> S(<<"a","|","a","s","c","|","b">>)),
    (kSort :> S(<<"a","|","A","S","c">>)),
    (kPage :> sA),
    (kPage :> S(<<"0">>)),
    (kPage :> S(<<"2","a">>)) }

\* The codec's record: the state s given (Null for an address bar that was
\* typed), the parameters written, what parseUrlParams returned for them, and
\* what serializeToUrlParams wrote for that.
CodecAt(step, s, params, out, again) ==
  [step |-> step, s |-> s, params |-> params, out |-> out, again |-> again]

\* serializeToUrlParams(s, new URLSearchParams())
CodecSerialize ==
  /\ codec.step = "state"
  /\ codec' = CodecAt("encoded", codec.s, serializeToUrlParams(codec.s, EmptyParams),
                      Null, EmptyParams)
  /\ UNCHANGED orchVars

\* The parameters a page already has when the state is written: filters of
\* an earlier state, the codec's other keys, and a key of the host page.
kTab == S(<<"t","a","b">>)
BaseParams ==
  { (kTab :> sA),
    ((kFilter \o sB) :> sA) @@ (kTab :> sA),
    ((kFilter \o kStatus) :> sB) @@ (kPage :> S(<<"2">>)) @@ (kViewSelected :> sViewV)
      @@ (kQuery :> sB) @@ (kTab :> sB) }

\* serializeToUrlParams(s, base)
CodecSerializeOver ==
  /\ codec.step = "state"
  /\ \E base \in BaseParams :
       codec' = [step |-> "merged", s |-> codec.s, base |-> base,
                 params |-> serializeToUrlParams(codec.s, base)]
  /\ UNCHANGED orchVars

\* parseUrlParams(params)
CodecParse ==
  /\ codec.step = "encoded"
  /\ codec' = CodecAt("decoded", codec.s, codec.params, parseUrlParams(codec.params),
                      EmptyParams)
  /\ UNCHANGED orchVars

\* parseUrlParams of utils/url.ts on the same parameters.
CodecParseLegacy ==
  /\ codec.step = "encoded"
  /\ codec' = CodecAt("legacy", codec.s, codec.params, parseUrlParamsLegacy(codec.params),
                      EmptyParams)
  /\ UNCHANGED orchVars

\* serializeToUrlParams(parseUrlParams(params), new URLSearchParams()), when
\* parseUrlParams returned.
CodecReserialize ==
  /\ codec.step = "decoded"
  /\ ~codec.out.threw
  /\ codec' = CodecAt("again", codec.s, codec.params, codec.out,
                      serializeToUrlParams(codec.out, EmptyParams))
  /\ UNCHANGED orchVars

\* No instance is mounted.
AtRest ==
  /\ FreshData
  /\ location = EmptyParams
  /\ history = 0
  /\ props = [i \in Inst |-> NoProps]
  /\ mounted = [i \in Inst |-> FALSE]
  /\ searchParams = [i \in Inst |-> EmptyParams]
  /\ state = [i \in Inst |-> getInitialState(NoProps, EmptyParams)]
  /\ views = [i \in Inst |-> <<AllView>>]
  /\ syncTimers = [i \in Inst |-> {}]
  /\ fetchTimers = [i \in Inst |-> {}]
  /\ last = [op |-> "none", inst |-> 1, page |-> Num(1), selected |-> 0,
             stale |-> FALSE]

InitCodec ==
  /\ AtRest
  /\ pager = PagerIdle
  /\ engine = EngineIdle
  /\ viewCalls = <<>>
  /\ \/ \E s \in CodecStates : codec = CodecAt("state", s, EmptyParams, Null, EmptyParams)
     \/ \E url \in RawUrls : codec = CodecAt("encoded", Null, url, Null, EmptyParams)

NextCodec == CodecSerialize \/ CodecParse \/ CodecReserialize \/ CodecSerializeOver \/ CodecParseLegacy

SpecCodec == InitCodec /\ [][NextCodec]_vars

(***************************************************************************)
(* The selection tracker on its own: a useSelection hook over the items of *)
(* the page shown, given any gesture; the items change when another page   *)
(* arrives, which the hook does not react to.                              *)
(***************************************************************************)
\* The pages of ids the tracker is given.
SelPages == {<<>>, <<"r1", "r2", "r3">>, <<"r4">>}
SelIds == {"r1", "r2", "r3", "r4"}

\* The elements of a list.
Members(seq) == {seq[k] : k \in DOMAIN seq}

\* What a gesture records: its arguments and the flag it found.
Gesture(selectionType, toggleType, selection, position) ==
  [op |-> selectionType, inst |-> 1, page |-> Num(1),
   selected |-> Len(selectedResources[1]), stale |-> FALSE,
   on |-> toggleType, id |-> selection, position |-> position,
   wasAll |-> allResourcesSelected[1]]

selVars == <<codec, viewCalls, pager, engine, location, history, props, mounted, searchParams, state, views,
             total, loading, firstLoad, error, applied, calls, syncTimers, fetchTimers,
             requests, abortControllers>>

\* useSelection.handleSelectionChange: "single" with any id, "multi" with the
\* id and position of a row of the page.
useSelection_handleSelectionChange(selectionType, toggleType, selection, position) ==
  /\ selectionType = "multi" =>
       (position + 1 \in 1..Len(items[1]) /\ selection = items[1][position + 1])
  /\ selectionType \in {"page", "all"} => (position = 0 /\ selection = "r1")
  /\ selectionType = "single" => position = 0
  /\ (selectionType = "single" /\ toggleType) => Len(selectedResources[1]) < MaxSelected
  /\ selectedResources' =
       [selectedResources EXCEPT ![1] =
          selectionAfter(@, items[1], selectionType, toggleType, selection, position)]
  /\ allResourcesSelected' =
       [allResourcesSelected EXCEPT ![1] = selectionType = "all" /\ toggleType]
  /\ last' = Gesture(selectionType, toggleType, selection, position)
  /\ UNCHANGED items
  /\ UNCHANGED selVars

\* useSelection.clearSelection
useSelection_clearSelection ==
  /\ selectedResources' = [selectedResources EXCEPT ![1] = <<>>]
  /\ allResourcesSelected' = [allResourcesSelected EXCEPT ![1] = FALSE]
  /\ last' = Gesture("clearSelection", FALSE, "r1", 0)
  /\ UNCHANGED items
  /\ UNCHANGED selVars

\* The hook is rendered with other items.
useSelection_items(page) ==
  /\ page # items[1]
  /\ items' = [items EXCEPT ![1] = page]
  /\ last' = Gesture("items", FALSE, "r1", 0)
  /\ UNCHANGED selectionVars
  /\ UNCHANGED selVars

InitSelection ==
  /\ AtRest
  /\ codec = CodecIdle
  /\ pager = PagerIdle
  /\ engine = EngineIdle
  /\ viewCalls = <<>>

NextSelection ==
  \/ \E selectionType \in {"single", "page", "multi", "all"}, toggleType \in BOOLEAN,
        selection \in SelIds, position \in 0..2 :
       useSelection_handleSelectionChange(selectionType, toggleType, selection, position)
  \/ useSelection_clearSelection
  \/ \E page \in SelPages : useSelection_items(page)

SpecSelection == InitSelection /\ [][NextSelection]_vars

(***************************************************************************)
(* The pagination helper on its own.  The repository holds two definitions *)
(* of the usePagination hook (def 1 and def 2 below); ListTableContent      *)
(* derives the same values for its table in paginationConfig (def 3).  The  *)
(* helper is controlled: page, limit and total are its props, and the       *)
(* parent's onPageChange is setPage, which hands the new page back in.      *)
(***************************************************************************)
MaxTotal == 5
MaxLimit == 2

PagerDefs == {1, 2, 3}
PagerPages == 1..(MaxPage + 1)
PagerLimits == (1..MaxLimit) \cup {20}
PagerTotals == (0..MaxTotal) \cup {45}
GoToPages == (0 - 1)..(MaxPage + 2)

\* Math.ceil(total / limit), for total >= 0 and limit >= 1
Ceil(nTotal, limit) == (nTotal + limit - 1) \div limit

\* totalPages: Math.ceil(total / limit) in the first usePagination,
\* Math.ceil(total / limit) || 1 in the second and in paginationConfig.
totalPages(def, nTotal, limit) ==
  IF def = 1 THEN Ceil(nTotal, limit)
  ELSE IF Ceil(nTotal, limit) = 0 THEN 1 ELSE Ceil(nTotal, limit)

hasPrevious(page) == page > 1

hasNext(def, page, limit, nTotal) == page < totalPages(def, nTotal, limit)

\* defaultT("page-totalpage", {page, totalPage})
defaultT(page, totalPage) ==
  NumToString(page) \o S(<<" ","o","f"," ">>) \o NumToString(totalPage)

\* A label that counts the records from 0.
labelFromZero(def, page, limit, nTotal) ==
  NumToString((page - 1) * limit) \o S(<<"-">>)
    \o NumToString(Min(page * limit, nTotal))
    \o S(<<" ","o","f"," ">>) \o NumToString(nTotal)

\* label
label(def, page, limit, nTotal) ==
  IF def = 3
  THEN IF nTotal > 0 THEN defaultT(page, totalPages(def, nTotal, limit)) ELSE <<>>
  ELSE IF nTotal = 0
       THEN IF def = 1 THEN <<>> ELSE S(<<"0"," ","r","e","s","u","l","t","s">>)
       ELSE NumToString((page - 1) * limit + 1) \o S(<<"-">>)
              \o NumToString(Min(page * limit, nTotal))
              \o S(<<" ","o","f"," ">>) \o NumToString(nTotal)

\* The helper after a handler ran: op(arg) was called and passed the pages
\* of "called" (none, or one) to onPageChange, whose setPage makes the last
\* of them the page prop.
PagerAfter(op, arg, called) ==
  [pager EXCEPT !.op = op, !.arg = arg, !.called = called,
                !.before = pager.page,
                !.page = IF called = <<>> THEN @ ELSE called[1]]

PagerStep(op, arg, called) ==
  /\ pager.step = "mounted"
  /\ pager' = PagerAfter(op, arg, called)
  /\ UNCHANGED <<codec, viewCalls, engine>>
  /\ UNCHANGED orchVarsButPager

\* A goToPage that passes the page on as it is.
goToPageUnclamped(newPage) ==
  /\ pager.def \in {1, 2}
  /\ PagerStep("goToPage", newPage, <<newPage>>)

\* goToPage
goToPage(newPage) ==
  /\ pager.def \in {1, 2}
  /\ PagerStep("goToPage", newPage,
               IF pager.def = 1
               THEN IF newPage >= 1 /\ newPage <= totalPages(1, pager.total, pager.limit)
                    THEN <<newPage>> ELSE <<>>
               ELSE <<Max(1, Min(newPage, totalPages(2, pager.total, pager.limit)))>>)

\* onPrevious; the button of paginationConfig is enabled by hasPrevious.
onPrevious ==
  /\ pager.def = 3 => hasPrevious(pager.page)
  /\ PagerStep("onPrevious", 0,
               IF hasPrevious(pager.page) THEN <<pager.page - 1>> ELSE <<>>)

\* onNext; the button of paginationConfig is enabled by hasNext.
onNext ==
  /\ pager.def = 3 => hasNext(3, pager.page, pager.limit, pager.total)
  /\ PagerStep("onNext", 0,
               IF hasNext(pager.def, pager.page, pager.limit, pager.total)
               THEN <<pager.page + 1>> ELSE <<>>)

InitPager ==
  /\ AtRest
  /\ codec = CodecIdle
  /\ engine = EngineIdle
  /\ viewCalls = <<>>
  /\ \E def \in PagerDefs, page \in PagerPages, limit \in PagerLimits,
        nTotal \in PagerTotals :
       pager = [step |-> "mounted", def |-> def, page |-> page, limit |-> limit,
                total |-> nTotal, op |-> "mount", arg |-> 0, called |-> <<>>,
                before |-> page]

NextPager ==
  \/ \E newPage \in GoToPages : goToPage(newPage)
  \/ onPrevious
  \/ onNext

SpecPager == InitPager /\ [][NextPager]_vars

(***************************************************************************)
(* The local filter/sort/paginate engine on its own: filterItemsLocally    *)
(* applied to lists of records and options drawn from bounded sets.  A     *)
(* record is [id, v]: id is its position in the input, v the value of its  *)
(* one field kStatus, Undefined when the record lacks it.  The field is    *)
(* not createdAt or updatedAt, so the date branch of the comparator is not *)
(* taken.                                                                  *)
(***************************************************************************)
MaxItems == 3

\* item[key]
fieldOf(item, key) == IF key = kStatus THEN item.v ELSE Undefined

\* String(v)
StringOf(v) ==
  IF v.t = "string" THEN v.v
  ELSE IF v.t = "number" THEN NumToString(v.v)
  ELSE IF v.t = "boolean" THEN BoolToString(v.v)
  ELSE IF v.t = "null" THEN S(<<"n","u","l","l">>)
  ELSE S(<<"u","n","d","e","f","i","n","e","d">>)

\* !v
Falsy(v) ==
  \/ v.t \in {"undefined", "null"}
  \/ v.t = "string" /\ v.v = <<>>
  \/ v.t = "number" /\ v.v = 0
  \/ v.t = "boolean" /\ ~v.v

\* String(v || "")
StringOrEmpty(v) == IF Falsy(v) THEN <<>> ELSE StringOf(v)

\* s.toLowerCase(), for the letters of the model
toLowerCase(s) == [k \in DOMAIN s |-> IF s[k] \in 65..90 THEN s[k] + 32 ELSE s[k]]

\* s.includes(p)
includes(s, p) == FindSub(s, p, 1) # 0

\* The predicate of the query filter.
matchesQuery(item, queryKey, queryValue) ==
  includes(toLowerCase(StringOrEmpty(fieldOf(item, queryKey))), toLowerCase(queryValue))

\* The predicate of the filter entry (key, value).
matchesFilter(item, key, value) ==
  IF value.t = "array" THEN \E k \in DOMAIN value.v : value.v[k] = fieldOf(item, key)
  ELSE IF value.t = "string"
  THEN includes(toLowerCase(StringOrEmpty(fieldOf(item, key))), toLowerCase(value.v))
  ELSE IF value.t \in {"boolean", "number"} THEN fieldOf(item, key) = value
  ELSE TRUE

\* The records left after the query filter and the field filters.
filteredItems(list, queryKey, queryValue, filters) ==
  SelectSeq(list, LAMBDA item :
    /\ queryValue # <<>> => matchesQuery(item, queryKey, queryValue)
    /\ \A key \in DOMAIN filters :
         ~isEmptyFilter(filters[key]) => matchesFilter(item, key, filters[key]))

RECURSIVE LexCompare(_, _)
\* The order of two strings by their characters: -1, 0 or 1.
LexCompare(a, b) ==
  IF a = <<>> /\ b = <<>> THEN 0
  ELSE IF a = <<>> THEN 0 - 1
  ELSE IF b = <<>> THEN 1
  ELSE IF a[1] < b[1] THEN 0 - 1
  ELSE IF a[1] > b[1] THEN 1
  ELSE LexCompare(Tail(a), Tail(b))

\* a.localeCompare(b) for the letters of the model: alphabetical whatever
\* the case, the lower-case letter first between two that differ in case.
localeCompare(a, b) ==
  IF toLowerCase(a) # toLowerCase(b) THEN LexCompare(toLowerCase(a), toLowerCase(b))
  ELSE LexCompare(b, a)

\* The comparator filterItemsLocally gives to sort.
compare(a, b, sort) ==
  LET aVal == fieldOf(a, sort.field)
      bVal == fieldOf(b, sort.field)
      isAsc == sort.direction = sAsc
  IN IF aVal.t = "undefined" /\ bVal.t = "undefined" THEN 0
     ELSE IF aVal.t = "undefined" THEN (IF isAsc THEN 1 ELSE 0 - 1)
     ELSE IF bVal.t = "undefined" THEN (IF isAsc THEN 0 - 1 ELSE 1)
     ELSE IF aVal.t = "string" /\ bVal.t = "string"
     THEN (IF isAsc THEN localeCompare(aVal.v, bVal.v) ELSE localeCompare(bVal.v, aVal.v))
     ELSE IF aVal.t = "number" /\ bVal.t = "number"
     THEN (IF isAsc THEN aVal.v - bVal.v ELSE bVal.v - aVal.v)
     ELSE 0

\* Array.prototype.sort is stable, and sorts when the comparator is
\* consistent.  This one is not when the values are of mixed types (it
\* answers 0 for a pair of different types), and the order is then left to
\* the implementation: the model takes the outcomes of the stable sorts the
\* engines use, insertion from the right, binary insertion and bottom-up
\* merging, which agree whenever the comparator is consistent.
RECURSIVE LinearPos(_, _, _, _)
LinearPos(sorted, x, j, sort) ==
  IF j = 0 \/ compare(sorted[j], x, sort) <= 0 THEN j
  ELSE LinearPos(sorted, x, j - 1, sort)

RECURSIVE BinaryPos(_, _, _, _, _)
BinaryPos(sorted, x, left, right, sort) ==
  IF left >= right THEN left
  ELSE LET mid == left + ((right - left) \div 2)
       IN IF compare(x, sorted[mid + 1], sort) < 0
          THEN BinaryPos(sorted, x, left, mid, sort)
          ELSE BinaryPos(sorted, x, mid + 1, right, sort)

InsertAt(seq, k, x) == SubSeq(seq, 1, k) \o <<x>> \o SubSeq(seq, k + 1, Len(seq))

RECURSIVE InsertionSort(_, _, _)
InsertionSort(seq, binary, sort) ==
  IF seq = <<>> THEN <<>>
  ELSE LET sorted == InsertionSort(SubSeq(seq, 1, Len(seq) - 1), binary, sort)
           x == seq[Len(seq)]
       IN InsertAt(sorted,
                   IF binary THEN BinaryPos(sorted, x, 0, Len(sorted), sort)
                   ELSE LinearPos(sorted, x, Len(sorted), sort),
                   x)

RECURSIVE Merge(_, _, _)
Merge(l, r, sort) ==
  IF l = <<>> THEN r
  ELSE IF r = <<>> THEN l
  ELSE IF compare(r[1], l[1], sort) < 0 THEN <<r[1]>> \o Merge(l, Tail(r), sort)
  ELSE <<l[1]>> \o Merge(Tail(l), r, sort)

RECURSIVE MergePass(_, _, _)
MergePass(seq, width, sort) ==
  IF Len(seq) <= width THEN seq
  ELSE Merge(SubSeq(seq, 1, width), SubSeq(seq, width + 1, Min(2 * width, Len(seq))), sort)
         \o MergePass(SubSeq(seq, 2 * width + 1, Len(seq)), width, sort)

RECURSIVE MergeSort(_, _, _)
MergeSort(seq, width, sort) ==
  IF width >= Len(seq) THEN seq
  ELSE MergeSort(MergePass(seq, width, sort), 2 * width, sort)

\* What filtered.sort(comparator) can leave.
sortOutcomes(seq, sort) ==
  IF sort = Null THEN {seq}
  ELSE {InsertionSort(seq, FALSE, sort), InsertionSort(seq, TRUE, sort),
        MergeSort(seq, 1, sort)}

\* slice with the page counted from 0.
sliceFromPage(seq, start, end) == SubSeq(seq, start + (end - start) + 1, Min(end + (end - start), Len(seq)))

\* seq.slice(start, end) for 0 <= start <= end
slice(seq, start, end) == SubSeq(seq, start + 1, Min(end, Len(seq)))

\* The values of a record's field: missing, numbers (0 among them), strings
\* in both cases, a boolean.
EngineValues ==
  {Undefined, Number(0), Number(2), Str(sA), Str(S(<<"A">>) \o sB), Bool(FALSE)}

\* The lists of records: any values, each record with its position as id.
EngineLists ==
  UNION { { [k \in 1..n |-> [id |-> k, v |-> vals[k]]] : vals \in [1..n -> EngineValues] }
          : n \in 0..MaxItems }

EngineQueries == {<<>>, sA, S(<<"0">>)}

\* Filters of every type, empty ones, and one on a field no record has.
EngineFilters ==
  { <<>>, (kStatus :> Str(<<>>)), (kStatus :> Arr(<<>>)), (kStatus :> Str(sB)),
    (kStatus :> Str(S(<<"0">>))), (kStatus :> Arr(<<Str(sA), Str(sB)>>)),
    (kStatus :> Number(0)), (kStatus :> Bool(FALSE)), (sB :> Str(sA)) }

EngineSorts ==
  {Null, [field |-> kStatus, direction |-> sAsc], [field |-> kStatus, direction |-> sDesc]}

\* filterItemsLocally(list, {queryKey: kStatus, queryValue, filters, sort,
\* page, limit})
filterItemsLocally(queryValue, filters, sort, page, limit) ==
  /\ engine.step = "input"
  /\ LET filtered == filteredItems(engine.list, kStatus, queryValue, filters)
     IN \E sorted \in sortOutcomes(filtered, sort) :
          engine' = [step |-> "output", list |-> engine.list, queryValue |-> queryValue,
                     filters |-> filters, sort |-> sort, page |-> page, limit |-> limit,
                     sorted |-> sorted,
                     out |-> [items |-> slice(sorted, (page - 1) * limit,
                                              (page - 1) * limit + limit),
                              total |-> Len(filtered)]]
  /\ UNCHANGED <<codec, viewCalls, pager>>
  /\ UNCHANGED orchVarsButPager

InitEngine ==
  /\ AtRest
  /\ codec = CodecIdle
  /\ pager = PagerIdle
  /\ viewCalls = <<>>
  /\ \E list \in EngineLists : engine = [step |-> "input", list |-> list]

NextEngine ==
  \E queryValue \in EngineQueries, filters \in EngineFilters, sort \in EngineSorts,
     page \in 1..(MaxPage + 1), limit \in 1..MaxLimit :
    filterItemsLocally(queryValue, filters, sort, page, limit)

SpecEngine == InitEngine /\ [][NextEngine]_vars

(***************************************************************************)
(* The consumers of a filters map on their own: the URL encoding, the      *)
(* request of fetchRemoteData, the local engine and the disabled flag of   *)
(* the save button, each applied to a map and to the same map with one     *)
(* more key whose value is empty.  Object.entries goes through the keys in *)
(* insertion order; a map is modelled without that order, which none of    *)
(* the comparisons below depends on.                                       *)
(***************************************************************************)
\* objectToFilters(obj): the entries that are not undefined, null or "".
objectToFilters(obj) ==
  [k \in {x \in DOMAIN obj :
            ~(obj[x].t \in {"undefined", "null"} \/ obj[x] = Str(<<>>))} |-> obj[k]]

RECURSIVE JoinComma(_)
\* value.join(",") for an array of strings
JoinComma(a) ==
  IF a = <<>> THEN <<>>
  ELSE IF Len(a) = 1 THEN a[1].v
  ELSE a[1].v \o <<44>> \o JoinComma(Tail(a))

\* formatFilter({field, value}): "" for an empty value, else "field|value".
formatFilter(field, value) ==
  IF value.t \in {"undefined", "null"} \/ value = Str(<<>>) THEN <<>>
  ELSE field \o <<124>> \o (IF value.t = "array" THEN JoinComma(value.v) ELSE StringOf(value))

\* buildUrl as fetchRemoteData calls it: what it hands to buildQueryUrl of
\* mongoose-url-query, which is not code of this repository: the base URL,
\* page, limit, the sort text and the filter texts (undefined when there is
\* none), the query being one more filter text.
buildUrl(baseUrl, page, limit, sort, filters, queryValue) ==
  LET formatted == {formatFilter(k, filters[k]) : k \in DOMAIN filters} \ {<<>>}
      filterStrings == formatted \cup
                         (IF queryValue # <<>> /\ Trim(queryValue) # <<>>
                          THEN {kStatus \o <<124>> \o Trim(queryValue)} ELSE {})
  IN [baseUrl |-> baseUrl, page |-> page, limit |-> limit,
      sort |-> IF sort = Null THEN Undefined
               ELSE Str(sort.field \o <<124>> \o sort.direction),
      filters |-> IF filterStrings = {} THEN Undefined ELSE Arr(filterStrings)]

\* primaryAction.disabled of ListTableFilters for the filters of the selected
\* view and the filter bar's values and search text.
primaryAction_disabled(currentFilters, filterValues, queryValue) ==
  With(currentFilters, kQueryValue,
       Str(queryOfView([name |-> <<>>, filters |-> currentFilters])))
    = With(filterValues, kQueryValue, Str(queryValue))

\* The extra key and the empty values it can have.
kExtra == S(<<"t">>)
EmptyValues == {Str(<<>>), Arr(<<>>), Undefined}

\* What the four consumers make of the filters map f.
Consumed(list, f, queryValue, sort, current) ==
  [url |-> serializeToUrlParams([page |-> Num(1), sort |-> sort, queryValue |-> queryValue,
                                 filters |-> f, viewSelected |-> Null], EmptyParams),
   request |-> buildUrl("e", 1, DEFAULT_LIMIT, sort, objectToFilters(f), queryValue),
   local |-> LET kept == filteredItems(list, kStatus, queryValue, f)
             IN [items |-> slice(kept, 0, MaxItems), total |-> Len(kept)],
   disabled |-> primaryAction_disabled(current, f, queryValue)]

\* The consumers applied to engine.f and to engine.f with the extra key.
ConsumeBoth ==
  /\ engine.step = "pair"
  /\ engine' = [engine EXCEPT
                  !.step = "consumed",
                  !.plain = Consumed(engine.list, engine.f, engine.queryValue,
                                     engine.sort, engine.current),
                  !.extra = Consumed(engine.list, With(engine.f, kExtra, engine.empty),
                                     engine.queryValue, engine.sort, engine.current)]
  /\ UNCHANGED <<codec, viewCalls, pager>>
  /\ UNCHANGED orchVarsButPager

\* A list, a filters map, an empty value for the extra key, a search text,
\* and a selected view whose filters are the map or none.
InitConsumers ==
  /\ AtRest
  /\ codec = CodecIdle
  /\ pager = PagerIdle
  /\ viewCalls = <<>>
  /\ \E list \in EngineLists, f \in EngineFilters, empty \in EmptyValues,
        queryValue \in EngineQueries, viewIsF \in BOOLEAN :
       engine = [step |-> "pair", list |-> list, f |-> f, empty |-> empty,
                 queryValue |-> queryValue, sort |-> Null,
                 current |-> IF viewIsF THEN f ELSE <<>>,
                 plain |-> Null, extra |-> Null]

NextConsumers == ConsumeBoth

SpecConsumers == InitConsumers /\ [][NextConsumers]_vars

(***************************************************************************)
(* Properties of the codec.                                                *)
(***************************************************************************)

\* normalize: the empty filter entries dropped; page 1 is the default a
\* missing page parameter decodes to.
Normalize(s) ==
  [threw |-> FALSE, page |-> s.page, sort |-> s.sort, queryValue |-> s.queryValue,
   filters |-> cleanFilters(s.filters), viewSelected |-> s.viewSelected]

\* C1 (codec round-trip): for every valid query state s,
\* parseUrlParams(serializeToUrlParams(s, empty)) is normalize(s); every
\* filter value comes back with the type and content it went in with.
C1_RoundTrip ==
  (codec.step = "decoded" /\ codec.s # Null) => codec.out = Normalize(codec.s)

\* C5 (decoding is total): parseUrlParams returns, it never throws, whatever
\* the parameters hold.
C5_DecodingTotal ==
  codec.step = "decoded" => ~codec.out.threw

\* C6 (codec idempotence): serializing what parseUrlParams read from the
\* serialization of s writes the same parameters again, keys and values.
C6_Idempotent ==
  (codec.step = "again" /\ codec.s # Null) => codec.again = codec.params

\* The parameter keys the codec writes.
IsCodecKey(k) == k \in {kPage, kSort, kQuery, kViewSelected} \/ StartsWith(k, kFilter)

\* C29 (encoding removes stale filters): the filter_* keys of
\* serializeToUrlParams(s, base) are exactly the non-empty entries of
\* s.filters whatever filter_* keys base had, the keys of base that are not
\* the codec's are carried over unchanged, and page is there iff s.page > 1.
C29_StaleFiltersRemoved ==
  codec.step = "merged" =>
    /\ {k \in DOMAIN codec.params : StartsWith(k, kFilter)}
         = {kFilter \o k : k \in {x \in DOMAIN codec.s.filters :
                                    ~isEmptyFilter(codec.s.filters[x])}}
    /\ \A k \in DOMAIN codec.base :
         ~IsCodecKey(k) => (k \in DOMAIN codec.params /\ codec.params[k] = codec.base[k])
    /\ \A k \in DOMAIN codec.params : ~IsCodecKey(k) => k \in DOMAIN codec.base
    /\ (kPage \in DOMAIN codec.params) = (codec.s.page.n > 1)

\* A state with a filter of its own written over parameters that had
\* another filter and a key of the host page.
C29_Witness ==
  /\ codec.step = "merged"
  /\ (kFilter \o sB) \in DOMAIN codec.base
  /\ kTab \in DOMAIN codec.base
  /\ DOMAIN codec.params = {kFilter \o kStatus, kTab}

\* The sort token is "<field>|<asc or desc>": exactly two segments, the
\* second one a direction.
WellFormedSort(token) ==
  /\ Len(Split(token, 124)) = 2
  /\ Split(token, 124)[2] \in {sAsc, sDesc}

\* C31 (malformed sort): whichever parseUrlParams read the parameters, sort
\* is the field/direction pair of the sort parameter when that consists of
\* exactly two |-delimited segments with the direction asc or desc, and no
\* sort (null) in every other case.
C31_MalformedSort ==
  (codec.step \in {"decoded", "legacy"} /\ ~codec.out.threw) =>
    IF Has(codec.params, kSort) /\ WellFormedSort(codec.params[kSort])
    THEN codec.out.sort = [field |-> Split(codec.params[kSort], 124)[1],
                           direction |-> Split(codec.params[kSort], 124)[2]]
    ELSE codec.out.sort \in {Null, Undefined}

(***************************************************************************)
(* Properties of the pagination helper.                                    *)
(***************************************************************************)

\* C18 (pagination derivation): for page >= 1, limit >= 1 and total >= 0,
\* totalPages = max(1, ceil(total / limit)), hasPrevious = (page > 1) and
\* hasNext = (page < totalPages); totalPages is 1 when total = 0.
C18_Derivation ==
  pager.step = "mounted" =>
    /\ totalPages(pager.def, pager.total, pager.limit)
         = Max(1, Ceil(pager.total, pager.limit))
    /\ hasPrevious(pager.page) = (pager.page > 1)
    /\ hasNext(pager.def, pager.page, pager.limit, pager.total)
         = (pager.page < Max(1, Ceil(pager.total, pager.limit)))

\* n clamped into [1, totalPages]
Clamped(n) == Max(1, Min(n, Max(1, Ceil(pager.total, pager.limit))))

\* C19 (goToPage clamps): goToPage(n) invokes the page-change callback once,
\* with n clamped into [1, totalPages], for any integer n.
C19_GoToPageClamps ==
  (pager.step = "mounted" /\ pager.op = "goToPage") =>
    pager.called = <<Clamped(pager.arg)>>

\* "<start>-<end> of <total>" with start = (page-1)*limit+1 and
\* end = min(page*limit, total)
StartEndOfTotal ==
  NumToString((pager.page - 1) * pager.limit + 1) \o S(<<"-">>)
    \o NumToString(Min(pager.page * pager.limit, pager.total))
    \o S(<<" ","o","f"," ">>) \o NumToString(pager.total)

\* C20 (pagination label), as the code has it: the label of usePagination is
\* "<start>-<end> of <total>" when total > 0 and "" (first definition) or
\* "0 results" (second) when total = 0; the label ListTableContent gives its
\* table is "<page> of <totalPages>" when total > 0 and "" when total = 0.
C20_Labels ==
  pager.step = "mounted" =>
    LET l == label(pager.def, pager.page, pager.limit, pager.total)
    IN IF pager.total = 0
       THEN l = IF pager.def = 2 THEN S(<<"0"," ","r","e","s","u","l","t","s">>)
                ELSE <<>>
       ELSE IF pager.def = 3
            THEN l = NumToString(pager.page) \o S(<<" ","o","f"," ">>)
                       \o NumToString(Max(1, Ceil(pager.total, pager.limit)))
            ELSE l = StartEndOfTotal

\* C20: page 2 of 45 records, 20 a page, is labelled "21-40 of 45".
C20_Witness ==
  /\ pager.step = "mounted"
  /\ pager.def = 2 /\ pager.page = 2 /\ pager.limit = 20 /\ pager.total = 45
  /\ label(pager.def, pager.page, pager.limit, pager.total)
       = S(<<"2","1","-","4","0"," ","o","f"," ","4","5">>)

\* C20 (pagination label), as stated: the label is "<start>-<end> of <total>"
\* whenever total > 0, and the empty or zero-result string when total = 0.
C20_LabelFormat ==
  pager.step = "mounted" =>
    LET l == label(pager.def, pager.page, pager.limit, pager.total)
    IN IF pager.total = 0
       THEN l \in {<<>>, S(<<"0"," ","r","e","s","u","l","t","s">>)}
       ELSE l = StartEndOfTotal

(***************************************************************************)
(* Properties of the useDataSource hook.                                   *)
(***************************************************************************)

\* C7 (page >= 1): the page of a mounted instance is an integer >= 1, after
\* hydration from any address bar and after any setter calls.
C7_PagePositive ==
  \A i \in Inst : mounted[i] => (~state[i].page.nan /\ state[i].page.n >= 1)

\* The request issued last for an endpoint, 0 when there is none.
LatestFor(endpoint) ==
  LET rs == {r \in DOMAIN requests : requests[r].endpoint = endpoint}
  IN IF rs = {} THEN 0 ELSE CHOOSE r \in rs : \A q \in rs : q <= r

\* C2 (stale-response safety): a result that is stored into items/total is
\* the result of the request issued last for the endpoint, never that of a
\* request a later one superseded, however late the transport resolves.
C2_OnlyLatestStored ==
  last.op = "resolved" =>
    applied[last.inst] = LatestFor(props[last.inst].endpoint)

\* The setters that reset the page.
PageResetters == {"setQueryValue", "setFilters", "setFilter"}

\* C3 (pagination reset), as the code has it: setQueryValue, setFilters and
\* setFilter leave page = 1 whatever it was; setSort leaves the page as it
\* found it.
C3_PageResetButSort ==
  /\ last.op \in PageResetters => state[last.inst].page = Num(1)
  /\ last.op = "setSort" => state[last.inst].page = last.page

\* C3: setQueryValue was called on page 2 and the page is 1.
C3_Witness ==
  /\ last.op = "setQueryValue"
  /\ last.page = Num(2)
  /\ state[last.inst].page = Num(1)

\* C3 (pagination reset), as stated: a call of setQueryValue, setFilters,
\* setFilter or setSort that changes the value leaves page = 1.
C3_PageReset ==
  [][\A i \in Inst :
       ( /\ last'.inst = i
         /\ last'.op \in PageResetters \cup {"setSort"}
         /\ \/ state'[i].queryValue # state[i].queryValue
            \/ state'[i].filters # state[i].filters
            \/ state'[i].sort # state[i].sort )
       => state'[i].page = Num(1)]_vars

\* The requests of an endpoint that are in flight and not cancelled.
Uncancelled(endpoint) ==
  {r \in DOMAIN requests :
     /\ requests[r].endpoint = endpoint
     /\ requests[r].status = "pending"
     /\ ~requests[r].aborted}

\* C8 (one request per endpoint): at most one request of an endpoint is in
\* flight and not cancelled, and it is the one registered for the endpoint.
C8_OneUncancelled ==
  \A i \in Inst :
    /\ Cardinality(Uncancelled(props[i].endpoint)) <= 1
    /\ \A r \in Uncancelled(props[i].endpoint) :
         /\ props[i].endpoint \in DOMAIN abortControllers
         /\ abortControllers[props[i].endpoint] = r

\* C8: a second instance started a fetch while the first instance's was in
\* flight; the first is cancelled and still pending, the second is the one
\* registered.
C8_Witness ==
  /\ last.op = "fetchData"
  /\ Len(requests) = 2
  /\ requests[1].inst # requests[2].inst
  /\ requests[1].status = "pending" /\ requests[1].aborted
  /\ requests[2].status = "pending" /\ ~requests[2].aborted

\* C9 (debounce coalescing): a debounced effect that executes runs with the
\* current state, and once it has executed nothing of it is left scheduled:
\* one burst of changes, one execution, with the final state.
C9_Coalesced ==
  \A i \in Inst :
    /\ Cardinality(syncTimers[i]) <= 1
    /\ Cardinality(fetchTimers[i]) <= 1
    /\ (last.inst = i /\ last.op = "syncToUrl") => (~last.stale /\ syncTimers[i] = {})
    /\ (last.inst = i /\ last.op = "fetchData") => (~last.stale /\ fetchTimers[i] = {})

\* C10 (transport failure): when a fetch fails with anything but a
\* cancellation, error is set, loading is false, and items and total are what
\* they were.
C10_FailureKeepsData ==
  [][\A i \in Inst :
       (last'.inst = i /\ last'.op = "failed") =>
         /\ error'[i] # Null
         /\ ~loading'[i]
         /\ items'[i] = items[i]
         /\ total'[i] = total[i]]_vars

\* C10: a fetch failed after an earlier one had loaded items, which are kept.
C10_Witness ==
  /\ last.op = "failed"
  /\ error[last.inst] # Null
  /\ ~loading[last.inst]
  /\ items[last.inst] # <<>>

\* C11 (cancellation is silent), as the code has it: the step in which a
\* fetch ends by cancellation changes none of items, total, loading,
\* firstLoad and error, so no error is surfaced and loading and error stay
\* what fetchData made them when the fetch started (true and null).
C11_CancelChangesNothing ==
  [][last'.op = "cancelled" => UNCHANGED dataVars]_vars

\* C11: a fetch that started when loading was false has ended by
\* cancellation: the items loaded before are kept, loading is still true.
C11_Witness ==
  /\ last.op = "cancelled"
  /\ items[last.inst] # <<>>
  /\ loading[last.inst]
  /\ error[last.inst] = Null

\* C11 (cancellation is silent), as stated: when a fetch ends by
\* cancellation, items, total, loading, firstLoad and error are what they
\* were before that fetch was started.
C11_AsBeforeTheFetch ==
  [][\A r \in DOMAIN requests :
       ( /\ last'.op = "cancelled"
         /\ requests[r].status = "pending"
         /\ requests'[r].status = "settled" )
       => DataOf(requests[r].inst)' = requests[r].was]_vars

\* C15 (selecting a view): setSelectedView(i) for a valid index i leaves
\* selectedView = i, the filters and the search text of view i's snapshot,
\* and page 1.
C15_SelectViewReplaces ==
  \A i \in Inst :
    (last.op = "setSelectedView" /\ last.inst = i) =>
      /\ state[i].selectedView + 1 \in 1..Len(views[i])
      /\ state[i].filters = views[i][state[i].selectedView + 1].filters
      /\ state[i].queryValue = queryOfView(views[i][state[i].selectedView + 1])
      /\ state[i].page = Num(1)

\* C30 (no viewSelected for the default view): a URL sync that runs with
\* selectedView = 0 leaves no viewSelected key in the parameters.
C30_NoViewSelectedForAll ==
  \A i \in Inst :
    ( /\ last.op = "syncToUrl" /\ last.inst = i /\ ~last.stale
      /\ props[i].syncWithUrl
      /\ state[i].selectedView = 0 )
    => kViewSelected \notin DOMAIN location

\* C39 (selected view round trip): after a URL sync that ran for the current
\* state, a fresh useDataSource with the same props hydrated from the address
\* bar starts with the selectedView of the instance that wrote it.
C39_ViewRoundTrip ==
  \A i \in Inst :
    ( /\ last.op = "syncToUrl" /\ last.inst = i /\ ~last.stale
      /\ props[i].syncWithUrl )
    => getInitialState(props[i], location).selectedView = state[i].selectedView

\* C40 (no duplicate selection): whatever the gestures were, every id occurs
\* at most once in selectedResources.
C40_NoDuplicateIds ==
  \A i \in Inst :
    \A j, k \in DOMAIN selectedResources[i] :
      selectedResources[i][j] = selectedResources[i][k] => j = k

\* C33 (cancellation handles): the abortControllers map holds an entry for
\* an endpoint only while a request for it is in flight: the request the
\* entry registers is pending and not cancelled.
C33_EntryOnlyInFlight ==
  \A e \in DOMAIN abortControllers :
    /\ requests[abortControllers[e]].status = "pending"
    /\ ~requests[abortControllers[e]].aborted

\* C34 (no cross-cancellation): a step that signals cancellation on a
\* request is a step of the instance that issued the request, also when
\* another instance uses the same endpoint.
C34_NoCrossCancel ==
  [][\A r \in DOMAIN requests :
       (~requests[r].aborted /\ requests'[r].aborted) => last'.inst = requests[r].inst]_vars

\* C37 (state/URL convergence): when the last thing that happened to a hook
\* with syncWithUrl is a URL sync or a back/forward navigation and it has no
\* debounced sync pending, the parameters page, sort, query, filter_* and
\* viewSelected of the address bar are the encoding of its state: writing
\* the state again would change nothing.
C37_UrlMatchesState ==
  \A i \in Inst :
    ( /\ mounted[i] /\ props[i].kind = "hook" /\ props[i].syncWithUrl
      /\ last.op \in {"syncToUrl", "popstate"}
      /\ syncTimers[i] = {} )
    => location = serializeToUrlParams(SyncClosure(state[i], views[i]), location)

(***************************************************************************)
(* Properties of the ListTable component.                                  *)
(***************************************************************************)

\* The page, query, filter and sort setters of ListTable.
TableSetters ==
  {"handleSetPage", "handleSetQueryValue", "handleSetFilterValues", "ListTable.setSort"}

C26_Page ==
  [][last'.op = "page" =>
       /\ Members(selectedResources'[1]) = (IF last'.on THEN Members(items[1]) ELSE {})
       /\ Len(selectedResources'[1]) = (IF last'.on THEN Len(items[1]) ELSE 0)
       /\ ~allResourcesSelected'[1]]_vars

\* The page was selected over a selection made on another page.
C26_Witness ==
  /\ last.op = "page" /\ last.on
  /\ last.selected >= 1
  /\ selectedResources[1] = <<"r1", "r2", "r3">>
  /\ items[1] = <<"r1", "r2", "r3">>

\* The position on the current page of the most recently selected id, -1
\* when there is none.
AnchorOf(sel, itemIds) ==
  IF sel = <<>> THEN 0 - 1 ELSE indexOf(itemIds, sel[Len(sel)])

\* The ids of the page between two positions, inclusive.
Between(itemIds, a, b) == {itemIds[k + 1] : k \in Min(a, b)..Max(a, b)}

\* What range(id, position, on) does to the selected ids.
RangeApplied ==
  LET anchor == AnchorOf(selectedResources[1], items[1])
  IN IF anchor < 0
     THEN selectedResources'[1] = selectedResources[1]
     ELSE Members(selectedResources'[1]) =
            IF last'.on
            THEN Members(selectedResources[1])
                   \cup Between(items[1], anchor, last'.position)
            ELSE Members(selectedResources[1])
                   \ Between(items[1], anchor, last'.position)

KeptIds == {engine.sorted[k].id : k \in DOMAIN engine.sorted}

\* No entry of the filters given is one that filters.
NoActiveFilter == \A key \in DOMAIN engine.filters : isEmptyFilter(engine.filters[key])

\* The record's stringified field value contains the text, whatever the
\* case; a record without the field has no value to contain it.
ContainsText(item, key, text) ==
  /\ fieldOf(item, key).t # "undefined"
  /\ includes(toLowerCase(StringOf(fieldOf(item, key))), toLowerCase(text))

\* C23: with a non-empty queryValue (and no field filter) a record is kept
\* iff the string form of its queryField value, falsy values such as 0 and
\* false included, contains queryValue whatever the case; a record without
\* the field is dropped; with an empty queryValue every record is kept.
C23_FreeText ==
  (engine.step = "output" /\ NoActiveFilter) =>
    \A k \in DOMAIN engine.list :
      (engine.list[k].id \in KeptIds) <=>
        (engine.queryValue = <<>> \/ ContainsText(engine.list[k], kStatus, engine.queryValue))

\* What C22 states of a record and one filter entry.
KeptByFilter(item, key, value) ==
  IF value.t = "array" THEN \E k \in DOMAIN value.v : value.v[k] = fieldOf(item, key)
  ELSE IF value.t = "string" THEN ContainsText(item, key, value.v)
  ELSE fieldOf(item, key) = value

\* C22: with no free text, a record is kept iff for each non-empty filter
\* entry its field value is an element of the array filter, or its
\* stringified field value contains the string filter whatever the case, or
\* its field value is strictly equal to the number or boolean filter; empty
\* entries filter nothing, and a record without the field is simply judged.
C22_FieldFilters ==
  (engine.step = "output" /\ engine.queryValue = <<>>) =>
    \A k \in DOMAIN engine.list :
      (engine.list[k].id \in KeptIds) <=>
        \A key \in DOMAIN engine.filters :
          ~isEmptyFilter(engine.filters[key]) =>
            KeptByFilter(engine.list[k], key, engine.filters[key])

\* The positions of the input whose record passes the free-text filter and
\* the field filters.
Passing ==
  {k \in DOMAIN engine.list :
     /\ engine.queryValue # <<>> => matchesQuery(engine.list[k], kStatus, engine.queryValue)
     /\ \A key \in DOMAIN engine.filters :
          ~isEmptyFilter(engine.filters[key]) =>
            matchesFilter(engine.list[k], key, engine.filters[key])}

\* C21: total is the number of records that pass the filters, whatever page
\* and limit are, and items is the part of the filtered, sorted list from
\* position (page-1)*limit up to but not including (page-1)*limit+limit; a
\* page beyond the last gives no items and the same total.
C21_Pagination ==
  engine.step = "output" =>
    LET start == (engine.page - 1) * engine.limit
        n == Max(0, Min(engine.limit, Len(engine.sorted) - start))
    IN /\ engine.out.total = Cardinality(Passing)
       /\ Len(engine.sorted) = engine.out.total
       /\ engine.out.items = [k \in 1..n |-> engine.sorted[start + k]]
       /\ start >= engine.out.total => engine.out.items = <<>>

\* A page beyond the last one of a filtered list: no items, the total kept.
C21_Witness ==
  /\ engine.step = "output"
  /\ Len(engine.list) = 3
  /\ engine.out.total = 2
  /\ engine.page = 3
  /\ engine.limit = 1
  /\ engine.out.items = <<>>

\* The two values are ones the comparator orders: two strings or two numbers.
Comparable(a, b) ==
  \/ a.v.t = "string" /\ b.v.t = "string"
  \/ a.v.t = "number" /\ b.v.t = "number"

\* C24: with a sort the kept records are in a stable order by the sort
\* field: a record without a value after every record with one when
\* ascending and before every one when descending, two comparable values in
\* their order and in input order when equal, two values of mixed or
\* incomparable types in input order; with no sort the input order is kept.
C24_StableSort ==
  engine.step = "output" =>
    \A i, j \in DOMAIN engine.sorted :
      i < j =>
        LET a == engine.sorted[i]
            b == engine.sorted[j]
        IN IF engine.sort = Null THEN a.id < b.id
           ELSE IF a.v.t = "undefined" /\ b.v.t = "undefined" THEN a.id < b.id
           ELSE IF a.v.t = "undefined" THEN engine.sort.direction = sDesc
           ELSE IF b.v.t = "undefined" THEN engine.sort.direction = sAsc
           ELSE IF Comparable(a, b)
           THEN compare(a, b, engine.sort) <= 0 /\ (compare(a, b, engine.sort) = 0 => a.id < b.id)
           ELSE a.id < b.id

\* C32 (empty is absent): for a filters map and the same map with an extra
\* key whose value is "", an empty array or undefined, the URL encoding, the
\* remote request, the local engine result and the disabled flag of the save
\* button are the same.
C32_EmptyIsAbsent ==
  engine.step = "consumed" => engine.extra = engine.plain

\* What happens with no user: the mount, the timers firing, the transport
\* settling.
SystemOps == {"mount", "fetchData", "syncToUrl", "resolved", "failed", "cancelled", "dropped"}

\* C38 (loading terminates): once the user acts no more, every mounted
\* instance that has no debounced fetch left to run comes to loading = FALSE
\* and stays there: no instance is left loading because its last request
\* ended by cancellation, whichever instance cancelled it.
C38_LoadingTerminates ==
  <>[](last.op \in SystemOps)
    => <>[](\A i \in Inst : (mounted[i] /\ fetchTimers[i] = {}) => ~loading[i])

\* C35 (quiescence of URL sync): once the user acts no more, the URL syncs
\* come to an end: from some point on no instance has a debounced URL sync
\* pending, so no further URL write or view re-initialisation follows.
C35_UrlSyncQuiesces ==
  <>[](last.op \in SystemOps) => <>[](\A i \in Inst : syncTimers[i] = {})

(***************************************************************************)
(* Properties of the views of a ListTable.                                 *)
(***************************************************************************)

\* C13 (deleting the active view): deleting the currently active non-default
\* view leaves selectedView = 0 and filters = {}, and the views list is the
\* previous one without the deleted view, the others unchanged and in order.
C13_DeleteActiveView ==
  [][\A i \in Inst :
       (last'.op = "handleDeleteView(selected)" /\ last'.inst = i) =>
         /\ state[i].selectedView >= 1
         /\ state'[i].selectedView = 0
         /\ state'[i].filters = <<>>
         /\ views'[i] = RemoveAt(views[i], state[i].selectedView + 1)]_vars

\* The active view, selected with filters of its own applied, was deleted.
C13_Witness ==
  /\ last.op = "handleDeleteView(selected)"
  /\ views[1] = <<AllView>>
  /\ state[1].selectedView = 0
  /\ state[1].filters = <<>>
  /\ fetchTimers[1] # {}

\* The setState steps that end a handleCreateView.
ViewCreated == {"viewCreated", "viewCreatedUnsaved"}

\* C16 (creating a view): createView(name) appends exactly one view, at the
\* end of the list, whose snapshot is the filters and the search text current
\* when it was called, and selects it.
C16_CreateAppends ==
  [][\A i \in Inst :
       /\ (last'.op \in ViewCreated /\ last'.inst = i) =>
            /\ Len(views'[i]) = Len(views[i]) + 1
            /\ SubSeq(views'[i], 1, Len(views[i])) = views[i]
            /\ state'[i].selectedView = Len(views[i])
            /\ views'[i][Len(views'[i])].name \in ViewNames
            /\ IF props[i].viewsEndpoint
               THEN \E k \in DOMAIN viewCalls :
                      /\ viewCalls[k] = ViewCall(i, "create", views'[i][Len(views'[i])],
                                                 EmptyParams)
                      /\ viewCalls' = RemoveAt(viewCalls, k)
               ELSE views'[i][Len(views'[i])].filters = snapshotOf(state[i])
       /\ (last'.op = "handleCreateView" /\ last'.inst = i) =>
            /\ Len(viewCalls') = Len(viewCalls) + 1
            /\ viewCalls'[Len(viewCalls')].view.filters = snapshotOf(state[i])]_vars

\* A view was created from a search text, and is the last and selected one.
C16_Witness ==
  /\ last.op \in ViewCreated
  /\ Len(views[1]) >= 2
  /\ state[1].selectedView = Len(views[1]) - 1
  /\ views[1][Len(views[1])] = [name |-> sW, filters |-> (kQueryValue :> Str(sA))]

\* The operations on views: the tab click that selects one, and what ends
\* a create, rename, duplicate, delete or update.
ViewOps ==
  ViewCreated \cup {"tabs.onAction", "handleRenameView", "handleDuplicateView",
                    "handleDeleteView", "handleDeleteView(selected)",
                    "handleUpdateView"}

\* C14 (the built-in view is fixed): after a view operation the list has at
\* index 0 the view named All with empty filters.
C14_AllIsFirst ==
  \A i \in Inst :
    (last.op \in ViewOps /\ last.inst = i) =>
      (views[i] # <<>> /\ views[i][1] = AllView)

\* C17 (view CRUD is local-first): a view handler whose call of the views
\* endpoint failed has changed the local list as it does on success, and
\* the table is still there.
C17_LocalFirst ==
  [][\A i \in Inst :
       (last'.op \in {"viewCreatedUnsaved", "renderError"} /\ last'.inst = i) =>
         (mounted'[i] /\ views'[i] # views[i] /\ error'[i] = error[i])]_vars

C36_CreatedViewStays ==
  [][\A i \in Inst :
       LET sel == state[i].selectedView + 1
       IN ( /\ mounted[i] /\ mounted'[i]
            /\ ~props[i].viewsEndpoint
            /\ sel \in (Len(initViewsList(props[i])) + 1)..Len(views[i])
            /\ last'.op \notin ViewOps )
          => /\ Len(views'[i]) >= sel
             /\ views'[i][sel] = views[i][sel]
             /\ state'[i].selectedView = state[i].selectedView]_vars

=============================================================================
